---- MODULE Spec2Model ----
(***************************************************************************)
(* A model of the c365-cs-agent AI engine (src/ai_engine.py), its          *)
(* knowledge base (src/knowledge_base.py), its result models               *)
(* (src/models.py), the Zendesk and Outlook clients                        *)
(* (src/zendesk_client.py, src/outlook_client.py) and the two handlers of  *)
(* src/server.py that write through them.                                  *)
(*                                                                         *)
(* Text is a sequence of tokens.  A token is a record [c, k, v]: c is the  *)
(* character class ("{", "}", ",", " ", "\n", "fence" for the marker of    *)
(* three backticks, "w" for a word of prose, "m" for one JSON member       *)
(* "k": v ), k the member's key or the word, v the member's JSON value.    *)
(* A JSON / Python value is a record                                       *)
(* [t, s, n]: t its type, s its string, n its number (confidences in       *)
(* hundredths), truth value (0/1) or list length.                          *)
(***************************************************************************)
EXTENDS Integers, Sequences, FiniteSets, TLC

VARIABLES
    client,      \* ai_engine._client: "configured" or "none"
    pc,          \* "idle" or "done": no call in progress / a call has ended
    op,          \* the operation that was called
    args,        \* its arguments
    raw,         \* what the provider call gave: [ok, text]
    outcome,     \* how the call ended: [kind, exc, value]
    trace,       \* the steps the call took, in order
    prompt,      \* the user prompt that was assembled
    p_in,        \* _parse_json_response under test: the text T
    p_wrap,      \* the fence wrapper applied to T
    p_out,       \* the results of parsing T and the wrapped T
    kb_in,       \* build_knowledge_context under test: its categories argument
    kb_out,      \* the context it returned
    demo_mode,   \* DEMO_MODE of zendesk_client and outlook_client
    store,       \* the tickets a read of zendesk_client gives, in list order
    calls,       \* the client calls of the last request, in order: [call, ok, ...]
    result       \* what the last request or client call gave

vars == <<client, pc, op, args, raw, outcome, trace, prompt,
          p_in, p_wrap, p_out, kb_in, kb_out,
          demo_mode, store, calls, result>>

engineVars == <<client, pc, op, args, raw, outcome, trace, prompt>>
parseVars == <<p_in, p_wrap, p_out>>
kbVars == <<kb_in, kb_out>>
serverVars == <<demo_mode, store, calls, result>>

\* No client and no handler is part of the run
NoServer ==
    demo_mode = TRUE /\ store = <<>> /\ calls = <<>> /\ result = <<>>

(***************************************************************************)
(* Values                                                                  *)
(***************************************************************************)
JStr(s) == [t |-> "str", s |-> s, n |-> 0]
JNum(n) == [t |-> "num", s |-> "", n |-> n]
JBool(b) == [t |-> "bool", s |-> "", n |-> IF b THEN 1 ELSE 0]
JNull == [t |-> "null", s |-> "", n |-> 0]
JList(n) == [t |-> "list", s |-> "", n |-> n]
Absent == [t |-> "absent", s |-> "", n |-> 0]

(***************************************************************************)
(* Tokens and the str methods _parse_json_response uses                    *)
(***************************************************************************)
Tok(c) == [c |-> c, k |-> "", v |-> JNull]
Word(w) == [c |-> "w", k |-> w, v |-> JNull]
Member(k, v) == [c |-> "m", k |-> k, v |-> v]

FENCE == Tok("fence")
NL == Tok("\n")
SP == Tok(" ")
LBRACE == Tok("{")
RBRACE == Tok("}")
COMMA == Tok(",")

IsSpace(tok) == tok.c \in {" ", "\n"}

RECURSIVE lstrip(_)
lstrip(text) ==
    IF text # <<>> /\ IsSpace(Head(text)) THEN lstrip(Tail(text)) ELSE text

RECURSIVE rstrip(_)
rstrip(text) ==
    IF text # <<>> /\ IsSpace(text[Len(text)])
    THEN rstrip(SubSeq(text, 1, Len(text) - 1))
    ELSE text

\* str.strip()
strip(text) == rstrip(lstrip(text))

\* str.startswith("```")
startswith_fence(text) == text # <<>> /\ Head(text) = FENCE

\* str.splitlines(): the lines between newlines; a final newline opens no
\* further line, and the empty text has no line.
RECURSIVE splitlines_from(_, _, _)
splitlines_from(text, cur, started) ==
    IF text = <<>>
    THEN IF started THEN <<cur>> ELSE <<>>
    ELSE IF Head(text) = NL
         THEN <<cur>> \o splitlines_from(Tail(text), <<>>, FALSE)
         ELSE splitlines_from(Tail(text), Append(cur, Head(text)), TRUE)

splitlines(text) == splitlines_from(text, <<>>, FALSE)

\* "\n".join(lines)
RECURSIVE join(_)
join(lines) ==
    IF lines = <<>> THEN <<>>
    ELSE IF Len(lines) = 1 THEN Head(lines)
    ELSE Head(lines) \o <<NL>> \o join(Tail(lines))

\* line for line in lines if not line.startswith("```")
RECURSIVE drop_fence_lines(_)
drop_fence_lines(lines) ==
    IF lines = <<>> THEN <<>>
    ELSE IF startswith_fence(Head(lines))
         THEN drop_fence_lines(Tail(lines))
         ELSE <<Head(lines)>> \o drop_fence_lines(Tail(lines))

\* A plausible slip: only the first and the last line are taken for markers.
StripFencesFirstLineOnly(text) ==
    LET t == strip(text)
        lines == splitlines(t)
    IN IF startswith_fence(t) THEN strip(join(Tail(lines))) ELSE t

\* Lines 69-76: strip, and if the text starts with a fence drop every line
\* that starts with one.
StripFences(text) ==
    LET t == strip(text)
    IN IF startswith_fence(t)
       THEN strip(join(drop_fence_lines(splitlines(t))))
       ELSE t

\* str.find / str.rfind of one character: 0-based index, -1 when absent
find(text, c) ==
    IF \E i \in 1..Len(text) : text[i].c = c
    THEN (CHOOSE i \in 1..Len(text) :
              text[i].c = c /\ \A j \in 1..(i - 1) : text[j].c # c) - 1
    ELSE -1

rfind(text, c) ==
    IF \E i \in 1..Len(text) : text[i].c = c
    THEN (CHOOSE i \in 1..Len(text) :
              text[i].c = c /\ \A j \in (i + 1)..Len(text) : text[j].c # c) - 1
    ELSE -1

\* text[start:end] for 0 <= start, 0 <= end
slice(text, start, end) == SubSeq(text, start + 1, end)

(***************************************************************************)
(* json.loads on a candidate object text                                   *)
(***************************************************************************)
RECURSIVE without_space(_)
without_space(text) ==
    IF text = <<>> THEN <<>>
    ELSE IF IsSpace(Head(text)) THEN without_space(Tail(text))
    ELSE <<Head(text)>> \o without_space(Tail(text))

\* member ("," member)*  over the tokens between the braces
RECURSIVE is_members(_)
is_members(toks) ==
    /\ toks # <<>>
    /\ Head(toks).c = "m"
    /\ \/ Len(toks) = 1
       \/ /\ Len(toks) >= 3
          /\ toks[2] = COMMA
          /\ is_members(Tail(Tail(toks)))

\* The dict of an object text: a later member with the same key wins.
dict_of(inner) ==
    LET idx == {i \in 1..Len(inner) : inner[i].c = "m"}
        keys == {inner[i].k : i \in idx}
        last(k) == CHOOSE i \in idx :
                       inner[i].k = k /\ \A j \in idx : inner[j].k = k => j <= i
    IN [k \in keys |-> inner[last(k)].v]

Ok(v) == [ok |-> TRUE, exc |-> "", v |-> v]
Raise(e) == [ok |-> FALSE, exc |-> e, v |-> <<>>]

json_loads(text) ==
    LET toks == without_space(text)
        n == Len(toks)
        inner == SubSeq(toks, 2, n - 1)
    IN IF /\ n >= 2
          /\ toks[1] = LBRACE
          /\ toks[n] = RBRACE
          /\ (inner = <<>> \/ is_members(inner))
       THEN Ok(dict_of(inner))
       ELSE Raise("JSONDecodeError")

\* ai_engine._parse_json_response
parse_json_response(text) ==
    LET t == StripFences(text)
        start == find(t, "{")
        end == rfind(t, "}") + 1
    IN IF start = -1 \/ end = 0
       THEN Raise("ValueError")
       ELSE json_loads(slice(t, start, end))

(***************************************************************************)
(* knowledge_base.py: the context is a sequence of sections, each with its *)
(* title and the keys of the entries it lists                              *)
(***************************************************************************)
\* POLICIES.keys(), in catalog order
PolicyKeys ==
    <<"sow_terms", "billing", "sla_response", "ip_ownership", "data_handling", "nda">>

SlaKeys == <<"response_times", "escalation_triggers", "escalation_contact">>

ContactKeys == <<"support", "sales", "billing", "ceo", "cto", "escalation">>

Range(seq) == {seq[i] : i \in 1..Len(seq)}

Section(title, entries) == [title |-> title, entries |-> entries]

\* The categories argument: not given (None, the default) or a list of keys
NoCategories == [given |-> FALSE, keys |-> <<>>]
Categories(keys) == [given |-> TRUE, keys |-> keys]

\* A plausible slip: "if categories is not None", so that [] selects nothing
policy_keys_unless_none(categories) ==
    IF categories.given THEN categories.keys ELSE PolicyKeys

\* A plausible slip: the argument is ignored and every policy is included
policy_keys_always_all(categories) == PolicyKeys

\* A plausible slip: a list with no key of the catalog selects every policy
policy_keys_widening(categories) ==
    IF categories.given /\ \E i \in 1..Len(categories.keys) :
                               categories.keys[i] \in Range(PolicyKeys)
    THEN categories.keys
    ELSE PolicyKeys

\* Line 322: categories if categories else list(POLICIES.keys())
policy_keys(categories) ==
    IF categories.given /\ categories.keys # <<>>
    THEN categories.keys
    ELSE PolicyKeys

\* A plausible slip: the keys are taken as they come, known or not
RECURSIVE relevant_policies_from_unfiltered(_, _)
relevant_policies_from_unfiltered(keys, acc) ==
    IF keys = <<>> THEN acc
    ELSE IF Head(keys) \notin Range(acc)
         THEN relevant_policies_from_unfiltered(Tail(keys), Append(acc, Head(keys)))
         ELSE relevant_policies_from_unfiltered(Tail(keys), acc)

\* Line 323: {k: POLICIES[k] for k in policy_keys if k in POLICIES}; a dict
\* keeps a key where it was first inserted.
RECURSIVE relevant_policies_from(_, _)
relevant_policies_from(keys, acc) ==
    IF keys = <<>> THEN acc
    ELSE IF Head(keys) \in Range(PolicyKeys) /\ Head(keys) \notin Range(acc)
         THEN relevant_policies_from(Tail(keys), Append(acc, Head(keys)))
         ELSE relevant_policies_from(Tail(keys), acc)

relevant_policies(categories) ==
    relevant_policies_from(policy_keys(categories), <<>>)

\* knowledge_base.build_knowledge_context
build_knowledge_context(categories) ==
    <<Section("COMPANY OVERVIEW", <<>>),
      Section("BRAND VOICE", <<>>),
      Section("SLA STANDARDS", SlaKeys),
      Section("ESCALATION CONTACT", <<>>)>>
    \o (IF relevant_policies(categories) # <<>>
        THEN <<Section("RELEVANT POLICIES", relevant_policies(categories))>>
        ELSE <<>>)
    \o <<Section("FAQ", <<>>),
         Section("CONTACT DIRECTORY", ContactKeys)>>

Titles(context) == {context[i].title : i \in 1..Len(context)}

\* The policy entries of a context, in the order they are listed
PoliciesIn(context) ==
    IF \E i \in 1..Len(context) : context[i].title = "RELEVANT POLICIES"
    THEN context[CHOOSE i \in 1..Len(context) :
                     context[i].title = "RELEVANT POLICIES"].entries
    ELSE <<>>

(***************************************************************************)
(* models.py: the enumerations, and what Python and pydantic do with a     *)
(* decoded JSON value                                                      *)
(***************************************************************************)
TicketPriority == {"urgent", "high", "normal", "low"}
TicketStatus == {"new", "open", "pending", "hold", "solved", "closed"}
TicketCategory ==
    {"billing", "access", "maintenance", "booking", "lease", "amenities",
     "orders", "warranty", "general", "escalation"}
SentimentLabel == {"positive", "neutral", "frustrated", "angry"}

\* Enum(value): the member with that value, or ValueError
enum_of(members, v) ==
    IF v.t = "str" /\ v.s \in members THEN Ok(v.s) ELSE Raise("ValueError")

\* data[key]: KeyError when the key is missing
getitem(data, key) ==
    IF key \in DOMAIN data THEN Ok(data[key]) ELSE Raise("KeyError")

\* data.get(key, default)
get(data, key, default) ==
    IF key \in DOMAIN data THEN data[key] ELSE default

\* E(data[key])
enum_item(members, data, key) ==
    IF getitem(data, key).ok
    THEN enum_of(members, getitem(data, key).v)
    ELSE getitem(data, key)

\* bool(value)
py_bool(v) ==
    CASE v.t = "bool" -> v.n = 1
      [] v.t = "num" -> v.n # 0
      [] v.t = "str" -> v.s # ""
      [] v.t = "list" -> v.n > 0
      [] OTHER -> FALSE

\* value or default
py_or(v, default) == IF py_bool(v) THEN v ELSE default

\* The strings of the model that float() can read, with their value in
\* hundredths
NumericStrings == [s \in {"0.5"} |-> 50]

\* float(value), in hundredths: TypeError for None and for a list
py_float(v) ==
    CASE v.t = "num" -> Ok(v.n)
      [] v.t = "bool" -> Ok(v.n * 100)
      [] v.t = "str" -> IF v.s \in DOMAIN NumericStrings
                        THEN Ok(NumericStrings[v.s])
                        ELSE Raise("ValueError")
      [] OTHER -> Raise("TypeError")

\* The exception of the first step that raised, "" when none did
FirstError(steps) ==
    IF \E i \in 1..Len(steps) : ~steps[i].ok
    THEN steps[CHOOSE i \in 1..Len(steps) :
                   ~steps[i].ok /\ \A j \in 1..(i - 1) : steps[j].ok].exc
    ELSE ""

\* pydantic field types
is_str(v) == v.t = "str"
is_optional_str(v) == v.t \in {"str", "null"}
is_list(v) == v.t = "list"

\* Field(ge=0.0, le=1.0), in hundredths
ConfidenceMin == 0
ConfidenceMax == 100

\* A plausible slip: the upper bound of the confidence field is left out
confidence_in_range_no_upper(c) == ConfidenceMin <= c

confidence_in_range(c) == ConfidenceMin <= c /\ c <= ConfidenceMax

\* except (ValueError, KeyError, json.JSONDecodeError): pydantic's
\* ValidationError and json.JSONDecodeError are ValueErrors.
Caught(exc) ==
    exc \in {"ValueError", "KeyError", "JSONDecodeError", "ValidationError"}

Return(value) == [kind |-> "return", exc |-> "", value |-> value]
Raised(exc) == [kind |-> "raise", exc |-> exc, value |-> <<>>]

(***************************************************************************)
(* ai_engine.py: the provider call                                         *)
(***************************************************************************)
\* What messages.create gives: a text, or one of the provider's failures
\* (a timeout, a rate limit, a 5xx answer), none of them a ValueError or a
\* KeyError
ProviderErrors == {"APITimeoutError", "RateLimitError", "InternalServerError"}

Reply(text) == [ok |-> TRUE, text |-> text, exc |-> ""]
ProviderFailure(exc) == [ok |-> FALSE, text |-> <<>>, exc |-> exc]
NoReply == [ok |-> FALSE, text |-> <<Word("no call")>>, exc |-> ""]

\* A plausible slip: the client is not looked at before the request
call_claude_unguarded(reply) ==
    IF reply.ok THEN Ok(reply.text) ELSE Raise(reply.exc)

\* A plausible slip: a failed request is turned into an empty text
call_claude_swallowing(reply) ==
    IF client = "none" THEN Raise("RuntimeError")
    ELSE IF reply.ok THEN Ok(reply.text)
    ELSE Ok(<<>>)

\* _call_claude: RuntimeError without a client, else what the provider
\* gives, its failure raised as it is
call_claude(reply) ==
    IF client = "none" THEN Raise("RuntimeError")
    ELSE IF reply.ok THEN Ok(reply.text)
    ELSE Raise(reply.exc)

\* The reply the call received, NoReply when no request was made
Received(reply) == IF client = "none" THEN NoReply ELSE reply

(***************************************************************************)
(* ai_engine.py: classify_ticket                                           *)
(***************************************************************************)
ConfidenceDefault == 85

\* (the dash is an em dash in the source)
FailSummary == "Classification failed - manual review required."

\* A plausible slip: the fallback keeps no ticket id
FallbackClassificationNoId(ticket) ==
    [type |-> "TicketClassification", ticket_id |-> 0, category |-> "general",
     priority |-> "normal", sentiment |-> "neutral", should_escalate |-> FALSE,
     escalation_reason |-> JNull, confidence |-> 0, summary |-> FailSummary]

\* Lines 165-173
FallbackClassification(ticket) ==
    [type |-> "TicketClassification",
     ticket_id |-> ticket.id,
     category |-> "general",
     priority |-> "normal",
     sentiment |-> "neutral",
     should_escalate |-> FALSE,
     escalation_reason |-> JNull,
     confidence |-> 0,
     summary |-> FailSummary]

\* A plausible slip: the priority is not taken from the model's output
BuildClassificationDefaultPriority(ticket, data) ==
    [type |-> "TicketClassification", ticket_id |-> ticket.id,
     category |-> data["category"].s, priority |-> "normal",
     sentiment |-> data["sentiment"].s,
     should_escalate |-> py_bool(data["should_escalate"]),
     escalation_reason |-> get(data, "escalation_reason", JNull),
     confidence |-> py_float(get(data, "confidence", JNum(ConfidenceDefault))).v,
     summary |-> data["summary"].s]

\* Lines 152-161, once every argument has been evaluated
BuildClassification(ticket, data) ==
    [type |-> "TicketClassification",
     ticket_id |-> ticket.id,
     category |-> data["category"].s,
     priority |-> data["priority"].s,
     sentiment |-> data["sentiment"].s,
     should_escalate |-> py_bool(data["should_escalate"]),
     escalation_reason |-> get(data, "escalation_reason", JNull),
     confidence |-> py_float(get(data, "confidence", JNum(ConfidenceDefault))).v,
     summary |-> data["summary"].s]

\* Lines 152-161: the arguments are evaluated in order, then pydantic
\* validates the fields.
classification_of(ticket, data) ==
    LET err == FirstError(<<
            enum_item(TicketCategory, data, "category"),
            enum_item(TicketPriority, data, "priority"),
            enum_item(SentimentLabel, data, "sentiment"),
            getitem(data, "should_escalate"),
            py_float(get(data, "confidence", JNum(ConfidenceDefault))),
            getitem(data, "summary")>>)
    IN IF err # "" THEN Raise(err)
       ELSE IF /\ is_optional_str(get(data, "escalation_reason", JNull))
               /\ confidence_in_range(
                      py_float(get(data, "confidence", JNum(ConfidenceDefault))).v)
               /\ is_str(data["summary"])
            THEN Ok(BuildClassification(ticket, data))
            ELSE Raise("ValidationError")

\* Lines 144-173: what classify_ticket returns or raises
classify_ticket(ticket, reply) ==
    LET call == call_claude(reply)
        parsed == parse_json_response(call.v)
        built == classification_of(ticket, parsed.v)
    IN IF ~call.ok THEN Raised(call.exc)
       ELSE IF ~parsed.ok
            THEN IF Caught(parsed.exc)
                 THEN Return(FallbackClassification(ticket))
                 ELSE Raised(parsed.exc)
       ELSE IF built.ok THEN Return(built.v)
       ELSE IF Caught(built.exc) THEN Return(FallbackClassification(ticket))
       ELSE Raised(built.exc)

(***************************************************************************)
(* ai_engine.py: generate_ticket_response and generate_email_response      *)
(***************************************************************************)
\* A text as the sequence of its non-empty parts; the empty text is <<>>
Str(s) == IF s = "" THEN <<>> ELSE <<s>>

SignOff == "The Conveyance365 Team"

\* Lines 243-250 and 297-303, once every argument has been evaluated
BuildResponse(ticket_id, data) ==
    [type |-> "SuggestedResponse",
     ticket_id |-> ticket_id,
     subject |-> Str(data["subject"].s),
     body |-> Str(data["body"].s),
     suggested_status |-> get(data, "suggested_status", JStr("pending")).s,
     suggested_tags |-> get(data, "suggested_tags", JList(0)),
     internal_notes |-> get(data, "internal_notes", JNull)]

\* A plausible slip: the status is taken as the model gave it
response_of_any_status(ticket_id, data) ==
    LET err == FirstError(<<getitem(data, "subject"), getitem(data, "body")>>)
    IN IF err # "" THEN Raise(err)
       ELSE IF /\ is_str(data["subject"])
               /\ is_str(data["body"])
               /\ is_list(get(data, "suggested_tags", JList(0)))
               /\ is_optional_str(get(data, "internal_notes", JNull))
            THEN Ok(BuildResponse(ticket_id, data))
            ELSE Raise("ValidationError")

\* Lines 243-250 and 297-303: the arguments in order, then pydantic
response_of(ticket_id, data) ==
    LET err == FirstError(<<
            getitem(data, "subject"),
            getitem(data, "body"),
            enum_of(TicketStatus, get(data, "suggested_status", JStr("pending")))>>)
    IN IF err # "" THEN Raise(err)
       ELSE IF /\ is_str(data["subject"])
               /\ is_str(data["body"])
               /\ is_list(get(data, "suggested_tags", JList(0)))
               /\ is_optional_str(get(data, "internal_notes", JNull))
            THEN Ok(BuildResponse(ticket_id, data))
            ELSE Raise("ValidationError")

\* A plausible slip: the fallback subject is the ticket's subject alone and
\* the body carries no sign-off
FallbackTicketResponseBare(ticket, requester_name) ==
    [type |-> "SuggestedResponse", ticket_id |-> JNum(ticket.id),
     subject |-> Str(ticket.subject),
     body |-> <<"Dear ">> \o Str(py_or(requester_name, JStr("Member")).s)
              \o <<",\n\n", "Thank you for reaching out to Conveyance365.">>,
     suggested_status |-> "pending", suggested_tags |-> JList(0),
     internal_notes |-> JNull]

\* Lines 253-263
FallbackTicketResponse(ticket, requester_name) ==
    [type |-> "SuggestedResponse",
     ticket_id |-> JNum(ticket.id),
     subject |-> <<"Re: ">> \o Str(ticket.subject),
     body |-> <<"Dear ">> \o Str(py_or(requester_name, JStr("Member")).s)
              \o <<",\n\n",
                   "Thank you for reaching out to Conveyance365. We have received your message and a member of our team will be in touch shortly.\n\n",
                   SignOff>>,
     suggested_status |-> "pending",
     suggested_tags |-> JList(0),
     internal_notes |-> JNull]

\* Lines 306-315
FallbackEmailResponse(email) ==
    [type |-> "SuggestedResponse",
     ticket_id |-> JNull,
     subject |-> <<"Re: ">> \o Str(email.subject),
     body |-> <<"Dear ">> \o Str(py_or(email.sender_name, JStr("Member")).s)
              \o <<",\n\n",
                   "Thank you for contacting Conveyance365. We have received your message and will respond within 4 business hours.\n\n",
                   SignOff>>,
     suggested_status |-> "pending",
     suggested_tags |-> JList(0),
     internal_notes |-> JNull]

\* The try/except of lines 241-263 and 295-315 around a built result
respond_with(reply, ticket_id, fallback) ==
    LET call == call_claude(reply)
        parsed == parse_json_response(call.v)
        built == response_of(ticket_id, parsed.v)
    IN IF ~call.ok THEN Raised(call.exc)
       ELSE IF ~parsed.ok
            THEN IF Caught(parsed.exc) THEN Return(fallback) ELSE Raised(parsed.exc)
       ELSE IF built.ok THEN Return(built.v)
       ELSE IF Caught(built.exc) THEN Return(fallback)
       ELSE Raised(built.exc)

\* Lines 239-263
generate_ticket_response(ticket, classification, requester_name, reply) ==
    respond_with(reply, JNum(ticket.id), FallbackTicketResponse(ticket, requester_name))

\* Lines 293-315
generate_email_response(email, classification, reply) ==
    respond_with(reply, JNull, FallbackEmailResponse(email))

(***************************************************************************)
(* ai_engine.py: summarize_customer_history                                *)
(***************************************************************************)
\* tickets[:30]
HistoryCap == 30

OpenStatuses == {"new", "open", "pending"}

\* A plausible slip: the tickets are counted after the cut to the first 30
open_count_capped(tickets) ==
    Cardinality({i \in 1..Len(tickets) :
                     i <= HistoryCap /\ tickets[i].status \in OpenStatuses})

\* Lines 354-357
open_count(tickets) ==
    Cardinality({i \in 1..Len(tickets) : tickets[i].status \in OpenStatuses})

\* Lines 345-352
EmptyHistorySummary(requester_email) ==
    [type |-> "CustomerHistorySummary",
     requester_email |-> requester_email,
     total_tickets |-> 0,
     open_tickets |-> 0,
     avg_sentiment |-> JStr("neutral"),
     top_categories |-> JList(0),
     summary |-> "No ticket history found for this client.",
     vip_flag |-> FALSE]

\* Lines 392-399 (the dash is an em dash in the source)
FallbackSummary(requester_email, tickets) ==
    [type |-> "CustomerHistorySummary",
     requester_email |-> requester_email,
     total_tickets |-> Len(tickets),
     open_tickets |-> open_count(tickets),
     avg_sentiment |-> JStr("neutral"),
     top_categories |-> JList(0),
     summary |-> "Summary generation failed - manual review of ticket history recommended.",
     vip_flag |-> FALSE]

\* Lines 381-389, once every argument has been evaluated
BuildSummary(requester_email, tickets, data) ==
    [type |-> "CustomerHistorySummary",
     requester_email |-> requester_email,
     total_tickets |-> Len(tickets),
     open_tickets |-> open_count(tickets),
     avg_sentiment |-> get(data, "avg_sentiment", JStr("neutral")),
     top_categories |-> get(data, "top_categories", JList(0)),
     summary |-> data["summary"].s,
     vip_flag |-> py_bool(get(data, "vip_flag", JBool(FALSE)))]

\* Lines 381-389: the arguments in order, then pydantic
summary_of(requester_email, tickets, data) ==
    LET err == FirstError(<<getitem(data, "summary")>>)
    IN IF err # "" THEN Raise(err)
       ELSE IF /\ is_str(get(data, "avg_sentiment", JStr("neutral")))
               /\ is_list(get(data, "top_categories", JList(0)))
               /\ is_str(data["summary"])
            THEN Ok(BuildSummary(requester_email, tickets, data))
            ELSE Raise("ValidationError")

\* A plausible slip: the empty history is sent to the model like any other
summarize_without_short_circuit(requester_email, tickets, reply) ==
    LET call == call_claude(reply)
        parsed == parse_json_response(call.v)
        built == summary_of(requester_email, tickets, parsed.v)
    IN IF ~call.ok THEN Raised(call.exc)
       ELSE IF parsed.ok /\ built.ok THEN Return(built.v)
       ELSE Return(FallbackSummary(requester_email, tickets))

\* Lines 344-399
summarize_customer_history(requester_email, tickets, reply) ==
    LET call == call_claude(reply)
        parsed == parse_json_response(call.v)
        built == summary_of(requester_email, tickets, parsed.v)
    IN IF tickets = <<>> THEN Return(EmptyHistorySummary(requester_email))
       ELSE IF ~call.ok THEN Raised(call.exc)
       ELSE IF ~parsed.ok
            THEN IF Caught(parsed.exc)
                 THEN Return(FallbackSummary(requester_email, tickets))
                 ELSE Raised(parsed.exc)
       ELSE IF built.ok THEN Return(built.v)
       ELSE IF Caught(built.exc)
            THEN Return(FallbackSummary(requester_email, tickets))
       ELSE Raised(built.exc)

(***************************************************************************)
(* _parse_json_response on its own: every short text T, bare and wrapped   *)
(* in a markdown code fence                                                *)
(***************************************************************************)
MaxTextLen == 4

ParseAlphabet == {LBRACE, RBRACE, SP, NL, FENCE, Word("json"), Member("a", JNum(1))}

RECURSIVE TextsOfLen(_)
TextsOfLen(n) ==
    IF n = 0 THEN {<<>>}
    ELSE {Append(t, x) : t \in TextsOfLen(n - 1), x \in ParseAlphabet}

BaseTexts == UNION {TextsOfLen(n) : n \in 0..MaxTextLen}

\* A wrapper: no fence, or an opening marker (with or without the json tag)
\* and a closing marker, each on its own line ("\n") or on the object's (" ").
NoWrap == [fenced |-> FALSE, lang |-> FALSE, open |-> "", close |-> ""]
Wrappers ==
    [fenced : {TRUE}, lang : BOOLEAN, open : {"\n", " "}, close : {"\n", " "}]

Wrap(w, text) ==
    IF ~w.fenced THEN text
    ELSE <<FENCE>> \o (IF w.lang THEN <<Word("json")>> ELSE <<>>)
         \o <<Tok(w.open)>> \o text \o <<Tok(w.close)>> \o <<FENCE>>

NotParsed == [ran |-> FALSE, base |-> Raise(""), wrapped |-> Raise(""),
              once |-> <<>>, twice |-> <<>>, once_base |-> <<>>,
              twice_base |-> <<>>]

InitParse ==
    /\ p_in \in BaseTexts
    /\ p_wrap = NoWrap
    /\ p_out = NotParsed
    /\ client = "none" /\ pc = "idle" /\ op = "none" /\ args = <<>>
    /\ raw = <<>> /\ outcome = <<>> /\ trace = <<>> /\ prompt = <<>>
    /\ NoServer
    /\ kb_in = NoCategories /\ kb_out = <<>>

\* Parse T and the wrapped T, and strip the fences of each once and twice.
ParseWrapped(w) ==
    /\ ~p_out.ran
    /\ p_wrap' = w
    /\ p_out' = [ran |-> TRUE,
                 base |-> parse_json_response(p_in),
                 wrapped |-> parse_json_response(Wrap(w, p_in)),
                 once |-> StripFences(Wrap(w, p_in)),
                 twice |-> StripFences(StripFences(Wrap(w, p_in))),
                 once_base |-> StripFences(p_in),
                 twice_base |-> StripFences(StripFences(p_in))]
    /\ UNCHANGED <<p_in, engineVars, kbVars, serverVars>>

NextParse == \E w \in Wrappers : ParseWrapped(w)

SpecParse == InitParse /\ [][NextParse]_vars

\* Two results of _parse_json_response are the same: the same object, or
\* the same error.
SameParse(a, b) ==
    /\ a.ok = b.ok
    /\ a.ok => a.v = b.v
    /\ ~a.ok => a.exc = b.exc

HasFence(text) == \E i \in 1..Len(text) : text[i] = FENCE

\* A line that is a fence marker behind leading whitespace
IndentedFence(line) == lstrip(line) # line /\ startswith_fence(lstrip(line))

HasIndentedFence(text) ==
    \E i \in 1..Len(splitlines(strip(text))) :
        IndentedFence(splitlines(strip(text))[i])

MaxCategories == 2

\* Keys a caller may pass: the policy keys and ticket categories that are
\* no policy key
RequestKeys == Range(PolicyKeys) \cup {"general", "access"}

RECURSIVE KeyListsOfLen(_)
KeyListsOfLen(n) ==
    IF n = 0 THEN {<<>>}
    ELSE {Append(l, k) : l \in KeyListsOfLen(n - 1), k \in RequestKeys}

CategoryArgs ==
    {NoCategories} \cup
    {Categories(l) : l \in UNION {KeyListsOfLen(n) : n \in 0..MaxCategories}}

InitKB ==
    /\ kb_in \in CategoryArgs
    /\ kb_out = <<>>
    /\ p_in = <<>> /\ p_wrap = NoWrap /\ p_out = NotParsed
    /\ client = "none" /\ pc = "idle" /\ op = "none" /\ args = <<>>
    /\ raw = <<>> /\ outcome = <<>> /\ trace = <<>> /\ prompt = <<>>
    /\ NoServer

BuildKnowledgeContext ==
    /\ kb_out = <<>>
    /\ kb_out' = build_knowledge_context(kb_in)
    /\ UNCHANGED <<kb_in, engineVars, parseVars, serverVars>>

NextKB == BuildKnowledgeContext

SpecKB == InitKB /\ [][NextKB]_vars

\* C8: build_knowledge_context(["billing"]) lists the billing policy and no
\* other policy of the catalog, and still has the overview, brand voice,
\* SLA, FAQ and contact directory sections.
C8_BillingOnly ==
    (kb_out # <<>> /\ kb_in = Categories(<<"billing">>)) =>
        /\ PoliciesIn(kb_out) = <<"billing">>
        /\ {"COMPANY OVERVIEW", "BRAND VOICE", "SLA STANDARDS", "FAQ",
            "CONTACT DIRECTORY"} \subseteq Titles(kb_out)

C8_Witness ==
    /\ kb_in = Categories(<<"billing">>)
    /\ Len(kb_out) = 7
    /\ "billing" \in Range(PoliciesIn(kb_out))
    /\ "nda" \notin Range(PoliciesIn(kb_out))

\* C9: with categories omitted, None or an empty list, the context lists
\* every policy key of the catalog.
C9_AllPolicies ==
    (kb_out # <<>> /\ (~kb_in.given \/ kb_in.keys = <<>>)) =>
        Range(PolicyKeys) \subseteq Range(PoliciesIn(kb_out))

C9_Witness ==
    /\ kb_in = Categories(<<>>)
    /\ kb_out # <<>>
    /\ Len(PoliciesIn(kb_out)) = Len(PolicyKeys)

(***************************************************************************)
(* The engine: inputs                                                      *)
(***************************************************************************)
Ticket(id, subject, description, status, priority, tags) ==
    [id |-> id, subject |-> subject, description |-> description,
     status |-> status, priority |-> priority, tags |-> tags]

Tickets ==
    {Ticket(101, "EDI 856 sync failing", JStr("22 shipments stuck"), "open",
            JStr("high"), <<"edi">>),
     Ticket(102, "", JNull, "new", JNull, <<>>),
     Ticket(103, "Invoice question", JStr(""), "solved", JStr("low"),
            <<"billing", "invoice">>)}

\* The object text of a field assignment: the fields that are not Absent,
\* in order, as members between braces
RECURSIVE members_of(_, _)
members_of(obj, fields) ==
    IF fields = <<>> THEN <<>>
    ELSE IF obj[Head(fields)] = Absent THEN members_of(obj, Tail(fields))
    ELSE LET rest == members_of(obj, Tail(fields))
         IN <<Member(Head(fields), obj[Head(fields)])>>
            \o (IF rest = <<>> THEN <<>> ELSE <<COMMA, SP>> \o rest)

Render(obj, fields) == <<LBRACE>> \o members_of(obj, fields) \o <<RBRACE>>

\* The ways the model dresses an object text
Shapes == {"bare", "fenced", "fenced_inline", "prose"}

Shape(sh, text) ==
    CASE sh = "fenced" ->
             Wrap([fenced |-> TRUE, lang |-> TRUE, open |-> "\n", close |-> "\n"], text)
      [] sh = "fenced_inline" ->
             Wrap([fenced |-> TRUE, lang |-> TRUE, open |-> " ", close |-> " "], text)
      [] sh = "prose" -> <<Word("Here is the JSON:"), NL>> \o text \o <<NL>>
      [] OTHER -> text

\* Texts that hold no object: no braces, one brace, braces the wrong way
\* round, an object text that does not decode, the empty object
MalformedTexts ==
    {<<>>,
     <<Word("not json at all")>>,
     <<LBRACE, Word("category")>>,
     <<Word("done"), RBRACE>>,
     <<RBRACE, SP, LBRACE>>,
     <<LBRACE, Word("oops"), RBRACE>>,
     <<LBRACE, Member("category", JStr("billing")), COMMA, RBRACE>>,
     <<LBRACE, RBRACE, SP, LBRACE, RBRACE>>,
     <<LBRACE, RBRACE>>}

\* The assignments that differ from base in at most n fields
RECURSIVE Variants(_, _, _)
Variants(base, dom, n) ==
    IF n = 0 THEN {base}
    ELSE LET prev == Variants(base, dom, n - 1)
         IN prev \cup
            {[o EXCEPT ![fv[1]] = fv[2]] :
                 o \in prev,
                 fv \in UNION {{<<f, v>> : v \in dom[f]} : f \in DOMAIN base}}

MaxDeviations == 2

ClassifyFields ==
    <<"category", "priority", "sentiment", "should_escalate",
      "escalation_reason", "confidence", "summary">>

ClassifyDomain ==
    [category |-> {JStr("maintenance"), JStr("billing"), JStr("general"),
                   JStr("Billing"), JNull, Absent},
     priority |-> {JStr("urgent"), JStr("normal"), JStr("Urgent"), Absent},
     sentiment |-> {JStr("frustrated"), JStr("neutral"), JStr("sad"), Absent},
     should_escalate |-> {JBool(TRUE), JBool(FALSE), JStr("false"), JNum(100),
                          JList(1), JNull, Absent},
     escalation_reason |-> {JStr("repeat critical integration failure"), JNull,
                            JList(0), Absent},
     confidence |-> {JNum(92), JNum(0), JNum(100), JNum(150), JNum(-50),
                     JStr("0.5"), JStr("high"), JBool(TRUE), JNull, JList(0),
                     Absent},
     summary |-> {JStr("EDI sync failing for 4 days"), JStr(FailSummary), JNull,
                  Absent}]

\* The well-formed output of the end-to-end scenario, and a well-formed
\* output with the values of the fallback
ClassifyBases ==
    {[category |-> JStr("maintenance"), priority |-> JStr("urgent"),
      sentiment |-> JStr("frustrated"), should_escalate |-> JBool(TRUE),
      escalation_reason |-> JStr("repeat critical integration failure"),
      confidence |-> JNum(92), summary |-> JStr("EDI sync failing for 4 days")],
     [category |-> JStr("general"), priority |-> JStr("normal"),
      sentiment |-> JStr("neutral"), should_escalate |-> JBool(FALSE),
      escalation_reason |-> JNull,
      confidence |-> JNum(0), summary |-> JStr(FailSummary)]}

\* Every object bare, the objects one field from a base in every shape, and
\* the malformed texts
RepliesOf(bases, dom, fields) ==
    {Reply(Render(o, fields)) :
         o \in UNION {Variants(b, dom, MaxDeviations) : b \in bases}}
    \cup {Reply(Shape(sh, Render(o, fields))) :
              sh \in Shapes, o \in UNION {Variants(b, dom, 1) : b \in bases}}
    \cup {Reply(t) : t \in MalformedTexts}
    \cup {ProviderFailure(e) : e \in ProviderErrors}

ClassifyReplies == RepliesOf(ClassifyBases, ClassifyDomain, ClassifyFields)

RespondFields ==
    <<"subject", "body", "suggested_status", "suggested_tags", "internal_notes">>

RespondDomain ==
    [subject |-> {JStr("Re: EDI 856 sync failing"), JStr(""), JNull, Absent},
     body |-> {JStr("Hi Dana, we are on it. The Conveyance365 Team"), JStr(""),
               JList(0), Absent},
     suggested_status |-> {JStr("solved"), JStr("pending"), JStr("open"),
                           JStr("archived"), JStr("Solved"), JNull, Absent},
     suggested_tags |-> {JList(2), JList(0), JNull, JStr("edi"), Absent},
     internal_notes |-> {JStr("check the EDI credentials"), JNull, JList(1),
                         Absent}]

RespondBases ==
    {[subject |-> JStr("Re: EDI 856 sync failing"),
      body |-> JStr("Hi Dana, we are on it. The Conveyance365 Team"),
      suggested_status |-> JStr("solved"),
      suggested_tags |-> JList(2),
      internal_notes |-> JNull]}

RespondReplies == RepliesOf(RespondBases, RespondDomain, RespondFields)

SummaryFields ==
    <<"summary", "avg_sentiment", "top_categories", "vip_flag", "total_tickets",
      "open_tickets">>

\* total_tickets and open_tickets are keys the model was not asked for
SummaryDomain ==
    [summary |-> {JStr("Long-standing client, mostly integration issues."),
                  JNull, Absent},
     avg_sentiment |-> {JStr("positive"), JStr("mixed"), JNull, Absent},
     top_categories |-> {JList(2), JNull, Absent},
     vip_flag |-> {JBool(TRUE), JBool(FALSE), JStr("no"), Absent},
     total_tickets |-> {JNum(99), Absent},
     open_tickets |-> {JNum(77), Absent}]

SummaryBases ==
    {[summary |-> JStr("Long-standing client, mostly integration issues."),
      avg_sentiment |-> JStr("positive"),
      top_categories |-> JList(2),
      vip_flag |-> JBool(TRUE),
      total_tickets |-> Absent,
      open_tickets |-> Absent]}

SummaryReplies == RepliesOf(SummaryBases, SummaryDomain, SummaryFields)

\* The classifications handed to the respond operations: what
\* classify_ticket returned for the ticket
ClassificationFor(id, category, should_escalate) ==
    [type |-> "TicketClassification",
     ticket_id |-> id,
     category |-> category,
     priority |-> IF should_escalate THEN "urgent" ELSE "normal",
     sentiment |-> IF should_escalate THEN "frustrated" ELSE "neutral",
     should_escalate |-> should_escalate,
     escalation_reason |-> IF should_escalate
                           THEN JStr("repeat critical integration failure")
                           ELSE JNull,
     confidence |-> 92,
     summary |-> "EDI sync failing for 4 days"]

\* Every category, escalated or not for two of them
ClassificationsFor(id) ==
    {ClassificationFor(id, c, e) : c \in {"billing", "maintenance"}, e \in BOOLEAN}
    \cup {ClassificationFor(id, c, FALSE) : c \in TicketCategory}

NoClassification ==
    [type |-> "None", ticket_id |-> 0, category |-> "", priority |-> "",
     sentiment |-> "", should_escalate |-> FALSE, escalation_reason |-> JNull,
     confidence |-> 0, summary |-> ""]

RequesterNames == {JNull, JStr(""), JStr("Dana Whitfield")}

Email(message_id, subject, sender_name, sender_email, body_text) ==
    [message_id |-> message_id, subject |-> subject, sender_name |-> sender_name,
     sender_email |-> sender_email, body_text |-> body_text]

Emails ==
    {Email("msg-1", "Question about our SOW", JStr("Dana Whitfield"),
           "dana@acme.example", "Can we extend the scope?"),
     Email("msg-2", "", JNull, "ops@acme.example", ""),
     Email("msg-3", "Invoice 1042", JStr(""), "ap@acme.example",
           "The invoice total looks wrong.")}

\* Histories: nothing or HistoryCap tickets of one status, then a tail of
\* at most MaxTail tickets
MaxTail == 2

TailStatuses == {"open", "pending", "solved", "closed"}

RECURSIVE StatusListsOfLen(_)
StatusListsOfLen(n) ==
    IF n = 0 THEN {<<>>}
    ELSE {Append(l, st) : l \in StatusListsOfLen(n - 1), st \in TailStatuses}

StatusLists ==
    LET tails == UNION {StatusListsOfLen(n) : n \in 0..MaxTail}
    IN tails \cup
       {[i \in 1..HistoryCap |-> st] \o t : st \in {"new", "hold"}, t \in tails}

HistoryOf(statuses) ==
    [i \in 1..Len(statuses) |->
        Ticket(200 + i, "Ticket", JNull, statuses[i], JNull, <<>>)]

Histories == {HistoryOf(l) : l \in StatusLists}

RequesterEmails == {"dana@acme.example"}

(***************************************************************************)
(* The engine: one call at a time                                          *)
(***************************************************************************)
NoArgs == <<>>

Init ==
    /\ client \in {"configured", "none"}
    /\ pc = "idle"
    /\ op = "none"
    /\ args = NoArgs
    /\ raw = NoReply
    /\ outcome = [kind |-> "none", exc |-> "", value |-> <<>>]
    /\ trace = <<>>
    /\ prompt = <<>>
    /\ p_in = <<>> /\ p_wrap = NoWrap /\ p_out = NotParsed
    /\ kb_in = NoCategories /\ kb_out = <<>>
    /\ NoServer

\* A plausible slip: a text that does not parse is asked for once more
StepsOfWithRetry(reply) ==
    <<"build_knowledge_context", "_call_claude">>
    \o (IF client # "none" THEN <<"messages.create">> ELSE <<>>)
    \o (IF call_claude(reply).ok THEN <<"_parse_json_response">> ELSE <<>>)
    \o (IF call_claude(reply).ok /\ ~parse_json_response(reply.text).ok
        THEN <<"_call_claude", "messages.create", "_parse_json_response">>
        ELSE <<>>)

\* The steps of a call that builds its context, calls the provider and, if
\* a text came back, parses it
StepsOf(reply) ==
    <<"build_knowledge_context", "_call_claude">>
    \o (IF client # "none" THEN <<"messages.create">> ELSE <<>>)
    \o (IF call_claude(reply).ok THEN <<"_parse_json_response">> ELSE <<>>)

\* Lines 126-142
classify_prompt(ticket) ==
    [ticket_id |-> ticket.id,
     subject |-> ticket.subject,
     description |-> py_or(ticket.description, JStr("(no description provided)")).s,
     priority |-> ticket.priority,
     status |-> ticket.status,
     tags |-> IF ticket.tags # <<>> THEN ticket.tags ELSE <<"none">>,
     knowledge |-> build_knowledge_context(NoCategories)]

\* A plausible slip: the priority of the classification is written into
\* the ticket
ClassifyTicketWritingPriority(ticket, reply) ==
    /\ pc = "idle"
    /\ pc' = "done"
    /\ op' = "classify_ticket"
    /\ args' = [ticket |->
                   IF classify_ticket(ticket, reply).kind = "return"
                   THEN [ticket EXCEPT
                            !.priority = JStr(classify_ticket(ticket, reply).value.priority)]
                   ELSE ticket]
    /\ prompt' = classify_prompt(ticket)
    /\ raw' = Received(reply)
    /\ trace' = StepsOf(reply)
    /\ outcome' = classify_ticket(ticket, reply)
    /\ UNCHANGED <<client, parseVars, kbVars, serverVars>>

\* Lines 124-173: args holds the ticket as it is when the call is over
ClassifyTicket(ticket, reply) ==
    /\ pc = "idle"
    /\ pc' = "done"
    /\ op' = "classify_ticket"
    /\ args' = [ticket |-> ticket]
    /\ prompt' = classify_prompt(ticket)
    /\ raw' = Received(reply)
    /\ trace' = StepsOf(reply)
    /\ outcome' = classify_ticket(ticket, reply)
    /\ UNCHANGED <<client, parseVars, kbVars, serverVars>>

\* A plausible slip: the escalation instruction is written into every prompt
ticket_response_prompt_always_escalating(ticket, classification, requester_name) ==
    [ticket_id |-> ticket.id,
     subject |-> ticket.subject,
     from |-> py_or(requester_name, JStr("Member")).s,
     description |-> py_or(ticket.description, JStr("(no description provided)")).s,
     classification |-> classification,
     escalation_contact |-> "andrew@conveyance365.com",
     knowledge |-> build_knowledge_context(Categories(<<classification.category>>)),
     escalation_instruction |-> TRUE]

\* Lines 210-237
ticket_response_prompt(ticket, classification, requester_name) ==
    [ticket_id |-> ticket.id,
     subject |-> ticket.subject,
     from |-> py_or(requester_name, JStr("Member")).s,
     description |-> py_or(ticket.description, JStr("(no description provided)")).s,
     classification |-> classification,
     escalation_contact |-> "andrew@conveyance365.com",
     knowledge |-> build_knowledge_context(Categories(<<classification.category>>)),
     escalation_instruction |-> classification.should_escalate]

GenerateTicketResponse(ticket, classification, requester_name, reply) ==
    /\ pc = "idle"
    /\ pc' = "done"
    /\ op' = "generate_ticket_response"
    /\ args' = [ticket |-> ticket, classification |-> classification,
                requester_name |-> requester_name]
    /\ prompt' = ticket_response_prompt(ticket, classification, requester_name)
    /\ raw' = Received(reply)
    /\ trace' = StepsOf(reply)
    /\ outcome' = generate_ticket_response(ticket, classification, requester_name, reply)
    /\ UNCHANGED <<client, parseVars, kbVars, serverVars>>

\* A plausible slip: the context of an email is never scoped
email_response_prompt_unscoped(email, classification) ==
    [from |-> py_or(email.sender_name, JStr(email.sender_email)).s,
     subject |-> email.subject,
     message |-> email.body_text,
     classification |-> classification,
     knowledge |-> build_knowledge_context(NoCategories),
     escalation_instruction |-> FALSE]

\* Lines 273-291: the classification is written as its JSON dump, and no
\* line of the prompt is the escalation instruction of the ticket prompt
email_response_prompt(email, classification) ==
    [from |-> py_or(email.sender_name, JStr(email.sender_email)).s,
     subject |-> email.subject,
     message |-> email.body_text,
     classification |-> classification,
     knowledge |-> build_knowledge_context(
                       IF classification.type # "None"
                       THEN Categories(<<classification.category>>)
                       ELSE NoCategories),
     escalation_instruction |-> FALSE]

GenerateEmailResponse(email, classification, reply) ==
    /\ pc = "idle"
    /\ pc' = "done"
    /\ op' = "generate_email_response"
    /\ args' = [email |-> email, classification |-> classification]
    /\ prompt' = email_response_prompt(email, classification)
    /\ raw' = Received(reply)
    /\ trace' = StepsOf(reply)
    /\ outcome' = generate_email_response(email, classification, reply)
    /\ UNCHANGED <<client, parseVars, kbVars, serverVars>>

\* Lines 359-375: the list shows the first HistoryCap tickets
history_prompt(requester_email, tickets) ==
    [email |-> requester_email,
     total_tickets |-> Len(tickets),
     open_tickets |-> open_count(tickets),
     ticket_list |-> [i \in 1..(IF Len(tickets) < HistoryCap
                                THEN Len(tickets) ELSE HistoryCap) |->
                         [id |-> tickets[i].id, subject |-> tickets[i].subject,
                          status |-> tickets[i].status,
                          priority |-> py_or(tickets[i].priority, JStr("none")).s]]]

\* Lines 344-380: no step at all for an empty history; no context is built
history_steps(tickets, reply) ==
    IF tickets = <<>> THEN <<>>
    ELSE <<"_call_claude">>
         \o (IF client # "none" THEN <<"messages.create">> ELSE <<>>)
         \o (IF call_claude(reply).ok THEN <<"_parse_json_response">> ELSE <<>>)

SummarizeCustomerHistory(requester_email, tickets, reply) ==
    /\ pc = "idle"
    /\ pc' = "done"
    /\ op' = "summarize_customer_history"
    /\ args' = [requester_email |-> requester_email, tickets |-> tickets]
    /\ prompt' = IF tickets = <<>> THEN <<>>
                 ELSE history_prompt(requester_email, tickets)
    /\ raw' = IF tickets = <<>> THEN NoReply ELSE Received(reply)
    /\ trace' = history_steps(tickets, reply)
    /\ outcome' = summarize_customer_history(requester_email, tickets, reply)
    /\ UNCHANGED <<client, parseVars, kbVars, serverVars>>

\* The caller has the result (or the exception); the engine keeps nothing of
\* the call.
CallEnds ==
    /\ pc = "done"
    /\ pc' = "idle"
    /\ op' = "none"
    /\ args' = NoArgs
    /\ raw' = NoReply
    /\ outcome' = [kind |-> "none", exc |-> "", value |-> <<>>]
    /\ trace' = <<>>
    /\ prompt' = <<>>
    /\ UNCHANGED <<client, parseVars, kbVars, serverVars>>

\* A call starts when none is in progress (the guard stands before the
\* choice of the inputs).
Next ==
    \/ /\ pc = "idle"
       /\ \E ticket \in Tickets, reply \in ClassifyReplies :
              ClassifyTicket(ticket, reply)
    \/ /\ pc = "idle"
       /\ \E ticket \in Tickets, name \in RequesterNames, reply \in RespondReplies :
              \E classification \in ClassificationsFor(ticket.id) :
                  GenerateTicketResponse(ticket, classification, name, reply)
    \/ /\ pc = "idle"
       /\ \E email \in Emails, reply \in RespondReplies :
              \E classification \in ClassificationsFor(0) \cup {NoClassification} :
                  GenerateEmailResponse(email, classification, reply)
    \/ /\ pc = "idle"
       /\ \E requester_email \in RequesterEmails, tickets \in Histories,
               reply \in SummaryReplies :
              SummarizeCustomerHistory(requester_email, tickets, reply)
    \/ CallEnds

Spec == Init /\ [][Next]_vars

(***************************************************************************)
(* Claims about classify_ticket                                            *)
(***************************************************************************)
Classified == pc = "done" /\ op = "classify_ticket"

\* The provider gave a text
TextReturned == pc = "done" /\ raw.ok

\* The text holds the member  "k": v
RawHas(k, v) == \E i \in 1..Len(raw.text) : raw.text[i] = Member(k, v)

C2_NeverRaisesOnText == TextReturned => outcome.kind = "return"

\* C3: a text with no "{" or no "}" gives the documented fallback, with the
\* id of the ticket.
C3_NoBracesFallback ==
    (Classified /\ raw.ok /\ (find(raw.text, "{") = -1 \/ find(raw.text, "}") = -1)) =>
        /\ outcome.kind = "return"
        /\ outcome.value.category = "general"
        /\ outcome.value.priority = "normal"
        /\ outcome.value.sentiment = "neutral"
        /\ outcome.value.should_escalate = FALSE
        /\ outcome.value.confidence = 0
        /\ outcome.value.summary = "Classification failed - manual review required."
        /\ outcome.value.ticket_id = args.ticket.id

C3_Witness ==
    /\ Classified
    /\ raw = Reply(<<Word("not json at all")>>)
    /\ args.ticket.id = 101
    /\ outcome.kind = "return"
    /\ outcome.value.ticket_id = 101
    /\ outcome.value.summary = FailSummary

\* The decoded object has every classification field, each valid
ValidClassificationData(data) ==
    /\ \A f \in Range(ClassifyFields) : f \in DOMAIN data
    /\ data["category"].t = "str" /\ data["category"].s \in TicketCategory
    /\ data["priority"].t = "str" /\ data["priority"].s \in TicketPriority
    /\ data["sentiment"].t = "str" /\ data["sentiment"].s \in SentimentLabel
    /\ data["should_escalate"].t = "bool"
    /\ data["escalation_reason"].t \in {"str", "null"}
    /\ data["confidence"].t = "num"
    /\ data["confidence"].n >= 0 /\ data["confidence"].n <= 100
    /\ data["summary"].t = "str"

\* C10: when the text decodes to an object with every classification field
\* present and valid, the Classification returned has each of the model's
\* values unchanged and the id of the ticket.
C10_ValidPassedThrough ==
    (/\ Classified /\ raw.ok
     /\ parse_json_response(raw.text).ok
     /\ ValidClassificationData(parse_json_response(raw.text).v)) =>
        LET data == parse_json_response(raw.text).v
        IN /\ outcome.kind = "return"
           /\ outcome.value.category = data["category"].s
           /\ outcome.value.priority = data["priority"].s
           /\ outcome.value.sentiment = data["sentiment"].s
           /\ outcome.value.should_escalate = (data["should_escalate"] = JBool(TRUE))
           /\ outcome.value.escalation_reason = data["escalation_reason"]
           /\ outcome.value.confidence = data["confidence"].n
           /\ outcome.value.summary = data["summary"].s
           /\ outcome.value.ticket_id = args.ticket.id

\* C10 witness: the end-to-end scenario, urgent and escalated, came through.
C10_Witness ==
    /\ Classified
    /\ args.ticket.id = 101
    /\ RawHas("priority", JStr("urgent"))
    /\ RawHas("should_escalate", JBool(TRUE))
    /\ RawHas("confidence", JNum(92))
    /\ outcome.kind = "return"
    /\ outcome.value.priority = "urgent"
    /\ outcome.value.should_escalate = TRUE
    /\ outcome.value.confidence = 92
    /\ outcome.value.category = "maintenance"
    /\ outcome.value.ticket_id = 101

(***************************************************************************)
(* Claims about the respond operations                                     *)
(***************************************************************************)
Responded ==
    pc = "done" /\ op \in {"generate_ticket_response", "generate_email_response"}

\* The decoded object is a valid response: subject and body are strings, the
\* status is left out or a TicketStatus, the tags left out or a list, the
\* notes left out, null or a string
ValidResponseData(data) ==
    /\ "subject" \in DOMAIN data /\ data["subject"].t = "str"
    /\ "body" \in DOMAIN data /\ data["body"].t = "str"
    /\ "suggested_status" \in DOMAIN data =>
           (data["suggested_status"].t = "str"
            /\ data["suggested_status"].s \in TicketStatus)
    /\ "suggested_tags" \in DOMAIN data => data["suggested_tags"].t = "list"
    /\ "internal_notes" \in DOMAIN data =>
           data["internal_notes"].t \in {"str", "null"}

\* C4: when the text of a respond operation cannot be parsed or validated,
\* the SuggestedResponse returned has status pending, a non-empty subject and
\* a non-empty body with the sign-off, whatever the record.
C4_RespondFallback ==
    (/\ Responded /\ raw.ok
     /\ ~(/\ parse_json_response(raw.text).ok
          /\ ValidResponseData(parse_json_response(raw.text).v))) =>
        /\ outcome.kind = "return"
        /\ outcome.value.suggested_status = "pending"
        /\ outcome.value.subject # <<>>
        /\ outcome.value.body # <<>>
        /\ "The Conveyance365 Team" \in Range(outcome.value.body)

\* C4 witness: "not json at all" for a ticket with an empty subject and no
\* requester name
C4_Witness ==
    /\ Responded
    /\ op = "generate_ticket_response"
    /\ raw = Reply(<<Word("not json at all")>>)
    /\ args.ticket.subject = ""
    /\ args.requester_name = JNull
    /\ outcome.kind = "return"
    /\ outcome.value.subject = <<"Re: ">>
    /\ outcome.value.suggested_status = "pending"
    /\ SignOff \in Range(outcome.value.body)

(***************************************************************************)
(* Claims about summarize_customer_history                                 *)
(***************************************************************************)
Summarized == pc = "done" /\ op = "summarize_customer_history"

\* C6: an empty ticket list gives the zero summary and no model call, also
\* when no credential is configured.
C6_EmptyHistoryNoCall ==
    (Summarized /\ args.tickets = <<>>) =>
        /\ outcome.kind = "return"
        /\ outcome.value.total_tickets = 0
        /\ outcome.value.open_tickets = 0
        /\ outcome.value.avg_sentiment = JStr("neutral")
        /\ outcome.value.top_categories = JList(0)
        /\ outcome.value.summary = "No ticket history found for this client."
        /\ "messages.create" \notin Range(trace)
        /\ "_call_claude" \notin Range(trace)

C6_Witness ==
    /\ Summarized
    /\ client = "none"
    /\ args.tickets = <<>>
    /\ outcome.kind = "return"
    /\ outcome.value.total_tickets = 0
    /\ trace = <<>>

\* C7: for a non-empty list, open_tickets is the number of tickets of the
\* whole list that are new, open or pending and total_tickets its length, on
\* the success path and on the fallback path, whatever the model's JSON says.
C7_CountsFromWholeList ==
    (Summarized /\ args.tickets # <<>> /\ outcome.kind = "return") =>
        /\ outcome.value.total_tickets = Len(args.tickets)
        /\ outcome.value.open_tickets =
               Cardinality({i \in 1..Len(args.tickets) :
                   args.tickets[i].status \in {"new", "open", "pending"}})

\* C7 witness: 32 tickets, the 31st open, and a valid output that carries
\* open_tickets = 77: the summary is the model's, the counts are 32 and 31.
C7_Witness ==
    /\ Summarized
    /\ Len(args.tickets) = HistoryCap + 2
    /\ args.tickets[1].status = "new"
    /\ args.tickets[HistoryCap + 1].status = "open"
    /\ args.tickets[HistoryCap + 2].status = "solved"
    /\ RawHas("open_tickets", JNum(77))
    /\ outcome.kind = "return"
    /\ outcome.value.summary = "Long-standing client, mostly integration issues."
    /\ outcome.value.total_tickets = HistoryCap + 2
    /\ outcome.value.open_tickets = HistoryCap + 1

\* C7 on the fallback path
C7_WitnessFallback ==
    /\ Summarized
    /\ Len(args.tickets) = HistoryCap + 1
    /\ args.tickets[HistoryCap + 1].status = "pending"
    /\ raw = Reply(<<Word("not json at all")>>)
    /\ outcome.kind = "return"
    /\ outcome.value.open_tickets = HistoryCap + 1

(***************************************************************************)
(* Claims about the provider call                                          *)
(***************************************************************************)
\* The operation of the call needs the model: every call but a summary of
\* an empty history
NeedsModel ==
    pc = "done" /\ ~(op = "summarize_customer_history" /\ args.tickets = <<>>)

Count(seq, x) == Cardinality({i \in 1..Len(seq) : seq[i] = x})

\* Every x of seq stands before every y of seq
Before(seq, x, y) ==
    \A i, j \in 1..Len(seq) : (seq[i] = x /\ seq[j] = y) => i < j

\* C11: without a credential every operation that needs the model raises
\* the configuration error (RuntimeError), no request is made to the
\* provider and no fallback result is returned.
C11_NoCredentialRaises ==
    (NeedsModel /\ client = "none") =>
        /\ outcome = Raised("RuntimeError")
        /\ "messages.create" \notin Range(trace)
        /\ "_parse_json_response" \notin Range(trace)
        /\ raw = NoReply

\* C11 witness: a ticket response asked for without a credential, with a
\* provider that would have answered
C11_Witness ==
    /\ pc = "done"
    /\ op = "generate_ticket_response"
    /\ client = "none"
    /\ args.ticket.id = 101
    /\ outcome.kind = "raise"
    /\ outcome.exc = "RuntimeError"
    /\ trace = <<"build_knowledge_context", "_call_claude">>

C13_ProviderFailurePropagates ==
    (NeedsModel /\ raw \in {ProviderFailure(e) : e \in ProviderErrors}) =>
        /\ outcome.kind = "raise"
        /\ outcome.exc = raw.exc
        /\ "_parse_json_response" \notin Range(trace)

\* C13 witness: a rate limit during a summary of a non-empty history
C13_Witness ==
    /\ Summarized
    /\ args.tickets # <<>>
    /\ raw = ProviderFailure("RateLimitError")
    /\ outcome = Raised("RateLimitError")
    /\ trace = <<"_call_claude", "messages.create">>

(***************************************************************************)
(* Claims about what classify_ticket does with a decoded object            *)
(***************************************************************************)
\* The object the text of the call decodes to
Decoded == parse_json_response(raw.text)

\* The text of the call decoded to an object
TextDecoded == pc = "done" /\ raw.ok /\ Decoded.ok

\* Every classification field is valid but the confidence, a number below 0
\* or above 1
ValidButConfidence(data) ==
    /\ \A f \in Range(ClassifyFields) : f \in DOMAIN data
    /\ ValidClassificationData([data EXCEPT !["confidence"] = JNum(ConfidenceMin)])
    /\ data["confidence"].t = "num"
    /\ ~confidence_in_range(data["confidence"].n)

\* C14: an output that is valid but for a confidence outside 0..1 is
\* accepted with the confidence clamped: the Classification keeps the
\* model's category, priority, sentiment, should_escalate and summary.
C14_ConfidenceClamped ==
    (Classified /\ TextDecoded /\ ValidButConfidence(Decoded.v)) =>
        /\ outcome.kind = "return"
        /\ outcome.value.category = Decoded.v["category"].s
        /\ outcome.value.priority = Decoded.v["priority"].s
        /\ outcome.value.sentiment = Decoded.v["sentiment"].s
        /\ outcome.value.should_escalate = (Decoded.v["should_escalate"] = JBool(TRUE))
        /\ outcome.value.summary = Decoded.v["summary"].s
        /\ outcome.value.confidence =
               (IF Decoded.v["confidence"].n > ConfidenceMax
                THEN ConfidenceMax ELSE ConfidenceMin)

\* The values the fallback of classify_ticket is known by
FallbackMarker(c) ==
    /\ c.confidence = 0
    /\ c.category = "general"
    /\ c.priority = "normal"
    /\ c.sentiment = "neutral"
    /\ c.summary = FailSummary

\* The text of the call was decoded and a TicketClassification built of it
Accepted == TextDecoded /\ classification_of(args.ticket, Decoded.v).ok

\* C17: a returned Classification carries the values of the fallback if and
\* only if the model text failed extraction, decoding or validation.
C17_FallbackDetectable ==
    (Classified /\ outcome.kind = "return") =>
        (FallbackMarker(outcome.value) <=> ~Accepted)

\* A required field is missing from the object, or one of the three
\* enumerated fields is there and is no member of its enumeration
RequiredMissing(data) ==
    \E f \in {"category", "priority", "sentiment", "should_escalate", "summary"} :
        f \notin DOMAIN data

NotAMember(data) ==
    \/ "category" \in DOMAIN data /\ ~enum_of(TicketCategory, data["category"]).ok
    \/ "priority" \in DOMAIN data /\ ~enum_of(TicketPriority, data["priority"]).ok
    \/ "sentiment" \in DOMAIN data /\ ~enum_of(SentimentLabel, data["sentiment"]).ok

\* C18: when the decoded object lacks a required field or has a category,
\* priority or sentiment outside its enumeration, classify_ticket returns
\* the complete fallback and nothing of the model's output.
C18_RejectedWhole ==
    (Classified /\ TextDecoded /\ (RequiredMissing(Decoded.v) \/ NotAMember(Decoded.v))) =>
        outcome = Return(FallbackClassification(args.ticket))

(***************************************************************************)
(* Claims about the order and the keys of build_knowledge_context          *)
(***************************************************************************)
\* The place of a policy key in the catalog
CatalogIndex(k) == CHOOSE i \in 1..Len(PolicyKeys) : PolicyKeys[i] = k

\* C15: the policies selected by a categories list stand in the context in
\* catalog order, whatever the order or repetition of the keys in the list.
C15_CatalogOrder ==
    (kb_out # <<>> /\ kb_in.given) =>
        \A i, j \in 1..Len(PoliciesIn(kb_out)) :
            i < j => CatalogIndex(PoliciesIn(kb_out)[i])
                         < CatalogIndex(PoliciesIn(kb_out)[j])

\* The sections every context has
AlwaysPresent ==
    {"COMPANY OVERVIEW", "BRAND VOICE", "SLA STANDARDS", "ESCALATION CONTACT",
     "FAQ", "CONTACT DIRECTORY"}

\* C16: keys that are not in the catalog are dropped without failure: the
\* policies listed are the known keys of the request and no other, and the
\* always-present sections are there, also when every key is unknown.
C16_UnknownKeysDropped ==
    (kb_out # <<>> /\ kb_in.given /\ kb_in.keys # <<>>) =>
        /\ Range(PoliciesIn(kb_out)) = Range(kb_in.keys) \cap Range(PolicyKeys)
        /\ AlwaysPresent \subseteq Titles(kb_out)
        /\ (Range(kb_in.keys) \cap Range(PolicyKeys) = {}) =>
               "RELEVANT POLICIES" \notin Titles(kb_out)

\* C16 witness: an unknown key beside a known one
C16_Witness ==
    /\ kb_in = Categories(<<"general", "billing">>)
    /\ PoliciesIn(kb_out) = <<"billing">>
    /\ Len(kb_out) = 7

\* C16, every key unknown: six sections and no policy section
C16_WitnessAllUnknown ==
    /\ kb_in = Categories(<<"general", "access">>)
    /\ Len(kb_out) = 6
    /\ Titles(kb_out) = AlwaysPresent

(***************************************************************************)
(* Claims about the enumerated fields of the summary and of the response   *)
(***************************************************************************)
\* C19: the avg_sentiment of every CustomerHistorySummary returned is one
\* of positive, neutral, frustrated, angry.
C19_AvgSentimentEnumerated ==
    (Summarized /\ outcome.kind = "return") =>
        /\ outcome.value.avg_sentiment.t = "str"
        /\ outcome.value.avg_sentiment.s \in SentimentLabel

\* The fallback of the respond operation of the call
FallbackOfCall ==
    IF op = "generate_ticket_response"
    THEN FallbackTicketResponse(args.ticket, args.requester_name)
    ELSE FallbackEmailResponse(args.email)

\* C20: the suggested_status of every SuggestedResponse returned is a
\* TicketStatus; an output that is valid and leaves suggested_status out
\* gives the model's subject and body with status pending, and an output
\* whose suggested_status is outside the enumeration gives the fallback.
C20_SuggestedStatusEnumerated ==
    /\ (Responded /\ outcome.kind = "return") =>
           outcome.value.suggested_status \in TicketStatus
    /\ (/\ Responded /\ TextDecoded
        /\ "suggested_status" \notin DOMAIN Decoded.v
        /\ ValidResponseData(Decoded.v)) =>
           /\ outcome.kind = "return"
           /\ outcome.value.subject = Str(Decoded.v["subject"].s)
           /\ outcome.value.body = Str(Decoded.v["body"].s)
           /\ outcome.value.suggested_status = "pending"
    /\ (/\ Responded /\ TextDecoded
        /\ "suggested_status" \in DOMAIN Decoded.v
        /\ ~enum_of(TicketStatus, Decoded.v["suggested_status"]).ok) =>
           outcome = Return(FallbackOfCall)

\* C20 witness: a valid output without suggested_status, for a ticket
C20_Witness ==
    /\ Responded
    /\ op = "generate_ticket_response"
    /\ TextDecoded
    /\ "suggested_status" \notin DOMAIN Decoded.v
    /\ RawHas("subject", JStr("Re: EDI 856 sync failing"))
    /\ outcome.kind = "return"
    /\ outcome.value.subject = <<"Re: EDI 856 sync failing">>
    /\ outcome.value.body = <<"Hi Dana, we are on it. The Conveyance365 Team">>
    /\ outcome.value.suggested_status = "pending"

\* C20, a status outside the enumeration, for an email: the fallback
C20_WitnessArchived ==
    /\ Responded
    /\ op = "generate_email_response"
    /\ RawHas("suggested_status", JStr("archived"))
    /\ RawHas("subject", JStr("Re: EDI 856 sync failing"))
    /\ args.email.subject = "Invoice 1042"
    /\ outcome.kind = "return"
    /\ outcome.value.subject = <<"Re: ", "Invoice 1042">>
    /\ outcome.value.suggested_status = "pending"

(***************************************************************************)
(* Claims about the prompts of the respond operations                      *)
(***************************************************************************)
TicketResponded == pc = "done" /\ op = "generate_ticket_response"
EmailResponded == pc = "done" /\ op = "generate_email_response"

\* C21: generate_email_response builds its context from every policy when
\* it is given no classification and from the classification's category
\* alone when it is given one; it takes no ticket, and the SuggestedResponse
\* it returns has no ticket_id.
C21_EmailContextAndNoTicketId ==
    EmailResponded =>
        /\ args.classification = NoClassification =>
               PoliciesIn(prompt.knowledge) = PolicyKeys
        /\ args.classification # NoClassification =>
               Range(PoliciesIn(prompt.knowledge)) \subseteq {args.classification.category}
        /\ (args.classification # NoClassification
            /\ args.classification.category \in Range(PolicyKeys)) =>
               PoliciesIn(prompt.knowledge) = <<args.classification.category>>
        /\ "ticket" \notin DOMAIN args
        /\ outcome.kind = "return" => outcome.value.ticket_id = JNull

\* C21 witness: an email with a billing classification, answered by the
\* model
C21_Witness ==
    /\ EmailResponded
    /\ args.classification.category = "billing"
    /\ PoliciesIn(prompt.knowledge) = <<"billing">>
    /\ outcome.kind = "return"
    /\ outcome.value.subject = <<"Re: EDI 856 sync failing">>
    /\ outcome.value.ticket_id = JNull

\* C21, no classification: every policy
C21_WitnessUnclassified ==
    /\ EmailResponded
    /\ args.classification = NoClassification
    /\ Len(PoliciesIn(prompt.knowledge)) = Len(PolicyKeys)
    /\ outcome.kind = "return"
    /\ outcome.value.ticket_id = JNull

\* C22: the prompt of generate_ticket_response has the escalation
\* instruction if and only if classification.should_escalate is true, and it
\* always has the escalation contact.
C22_EscalationInstructionIff ==
    TicketResponded =>
        /\ prompt.escalation_instruction = args.classification.should_escalate
        /\ prompt.escalation_contact = "andrew@conveyance365.com"

\* C22 witness: a ticket whose classification is not escalated
C22_Witness ==
    /\ TicketResponded
    /\ args.ticket.id = 101
    /\ args.classification.category = "maintenance"
    /\ ~args.classification.should_escalate
    /\ ~prompt.escalation_instruction
    /\ prompt.escalation_contact = "andrew@conveyance365.com"

\* C22, an escalated classification
C22_WitnessEscalated ==
    /\ TicketResponded
    /\ args.classification.should_escalate
    /\ prompt.escalation_instruction

\* C23: the prompt of generate_email_response has the escalation
\* instruction when the classification it is given has should_escalate true,
\* as the prompt of generate_ticket_response has.
C23_EmailEscalationInstruction ==
    (EmailResponded /\ args.classification # NoClassification
     /\ args.classification.should_escalate) =>
        prompt.escalation_instruction

\* C24: no prompt of classify_ticket, generate_ticket_response or
\* generate_email_response has an empty subject slot or an empty body slot.
C24_PlaceholdersInPrompts ==
    /\ (Classified \/ TicketResponded) =>
           (prompt.subject # "" /\ prompt.description # "")
    /\ EmailResponded => (prompt.subject # "" /\ prompt.message # "")

(***************************************************************************)
(* Claims about the escalation flag and the scope of the ticket context    *)
(***************************************************************************)
\* C28: classify_ticket returns should_escalate = true only when the
\* should_escalate of the model's output is the JSON boolean true.
C28_EscalatesOnlyOnTrue ==
    (Classified /\ outcome.kind = "return" /\ outcome.value.should_escalate) =>
        /\ TextDecoded
        /\ "should_escalate" \in DOMAIN Decoded.v
        /\ Decoded.v["should_escalate"] = JBool(TRUE)

\* C29: the context generate_ticket_response builds for a classification
\* of category c lists the policy c alone when c is a key of the catalog,
\* and has no policy section when c is not; it never lists every policy.
C29_TicketContextScoped ==
    TicketResponded =>
        /\ args.classification.category \in TicketCategory
        /\ args.classification.category \in Range(PolicyKeys) =>
               PoliciesIn(prompt.knowledge) = <<args.classification.category>>
        /\ args.classification.category \notin Range(PolicyKeys) =>
               /\ "RELEVANT POLICIES" \notin Titles(prompt.knowledge)
               /\ Len(prompt.knowledge) = 6

\* C29 witness: a warranty ticket, whose category is no policy key
C29_Witness ==
    /\ TicketResponded
    /\ args.classification.category = "warranty"
    /\ PoliciesIn(prompt.knowledge) = <<>>
    /\ Titles(prompt.knowledge) = AlwaysPresent
    /\ outcome.kind = "return"

\* C29, the one category that is a policy key
C29_WitnessBilling ==
    /\ TicketResponded
    /\ args.classification.category = "billing"
    /\ PoliciesIn(prompt.knowledge) = <<"billing">>

(***************************************************************************)
(* Claims about what a call leaves behind                                  *)
(***************************************************************************)
\* What the operation of the call gives for the arguments as they are when
\* the call is over and the reply it received
ResultOf ==
    CASE op = "classify_ticket" -> classify_ticket(args.ticket, raw)
      [] op = "generate_ticket_response" ->
             generate_ticket_response(args.ticket, args.classification,
                                      args.requester_name, raw)
      [] op = "generate_email_response" ->
             generate_email_response(args.email, args.classification, raw)
      [] op = "summarize_customer_history" ->
             summarize_customer_history(args.requester_email, args.tickets, raw)
      [] OTHER -> [kind |-> "none", exc |-> "", value |-> <<>>]

\* The prompt the operation writes for the arguments as they are when the
\* call is over
PromptOf ==
    CASE op = "classify_ticket" -> classify_prompt(args.ticket)
      [] op = "generate_ticket_response" ->
             ticket_response_prompt(args.ticket, args.classification,
                                    args.requester_name)
      [] op = "generate_email_response" ->
             email_response_prompt(args.email, args.classification)
      [] op = "summarize_customer_history" /\ args.tickets # <<>> ->
             history_prompt(args.requester_email, args.tickets)
      [] OTHER -> <<>>

ZendeskTicket(id, subject, status, priority, requester_id, tags) ==
    [id |-> id, subject |-> subject, description |-> JStr("(demo description)"),
     status |-> status, priority |-> JStr(priority), tags |-> tags,
     requester_id |-> requester_id]

\* _demo_tickets(): the fixed set, in list order
DemoTickets ==
    <<ZendeskTicket(40112, "P21 report not generating", "open", "urgent", 9001,
                    <<"p21", "reporting", "month-end">>),
      ZendeskTicket(40098, "Integration sync failing - EDI 856 ASN", "open", "high",
                    9002, <<"edi", "integration", "p21", "edi-856">>),
      ZendeskTicket(40087, "Need help with AI agent configuration", "pending",
                    "normal", 9003, <<"ai-agent", "configuration", "onboarding">>),
      ZendeskTicket(40071, "Invoice discrepancy Q4 - PO 7892", "open", "high", 9004,
                    <<"billing", "invoice", "po-mismatch">>),
      ZendeskTicket(40063, "Data migration status update", "pending", "normal", 9005,
                    <<"migration", "onboarding", "follow-up">>),
      ZendeskTicket(40045, "Warehouse label printer not pulling item data", "solved",
                    "normal", 9006, <<"warehouse", "printing", "p21">>),
      ZendeskTicket(40029, "SSO login loop after Azure AD update", "closed", "high",
                    9002, <<"sso", "azure-ad", "authentication">>)>>

\* [t for t in tickets if keep(t)], as the indices kept
RECURSIVE Filter(_, _)
Filter(tickets, keep) ==
    IF tickets = <<>> THEN <<>>
    ELSE (IF keep[Head(tickets).id] THEN <<Head(tickets)>> ELSE <<>>)
         \o Filter(Tail(tickets), keep)

HasTicket(tickets, ticket_id) == \E i \in 1..Len(tickets) : tickets[i].id = ticket_id

\* The first ticket of the list with that id
TicketOf(tickets, ticket_id) ==
    tickets[CHOOSE i \in 1..Len(tickets) :
                /\ tickets[i].id = ticket_id
                /\ \A j \in 1..(i - 1) : tickets[j].id # ticket_id]

\* get_ticket: in demo mode a search of _demo_tickets(), ValueError when
\* the id is not there; else GET /tickets/{id}, which raises when the
\* request fails (http_ok false) or the ticket does not exist
get_ticket(ticket_id, http_ok) ==
    IF demo_mode
    THEN IF HasTicket(store, ticket_id) THEN Ok(TicketOf(store, ticket_id))
         ELSE Raise("ValueError")
    ELSE IF http_ok /\ HasTicket(store, ticket_id)
         THEN Ok(TicketOf(store, ticket_id))
         ELSE Raise("HTTPStatusError")

\* list_tickets(status)
list_tickets(status) ==
    Filter(store, [id \in {store[i].id : i \in 1..Len(store)} |->
                      TicketOf(store, id).status = status])

\* get_tickets_by_requester(requester_id)
get_tickets_by_requester(requester_id) ==
    Filter(store, [id \in {store[i].id : i \in 1..Len(store)} |->
                      TicketOf(store, id).requester_id = requester_id])

\* Lines 367-372: status and priority are set when given (None is JNull),
\* the tags extended when the list is given and not empty
Updated(ticket, status, priority, tags_add) ==
    [ticket EXCEPT
        !.status = IF py_bool(status) THEN status.s ELSE @,
        !.priority = IF py_bool(priority) THEN priority ELSE @,
        !.tags = @ \o tags_add]

\* update_ticket: what it returns or raises
update_ticket(ticket_id, status, priority, tags_add, http_ok) ==
    IF get_ticket(ticket_id, http_ok).ok
    THEN Ok(Updated(get_ticket(ticket_id, http_ok).v, status, priority, tags_add))
    ELSE get_ticket(ticket_id, http_ok)

\* The list with the ticket of that id replaced
Replaced(tickets, ticket) ==
    [i \in 1..Len(tickets) |->
        IF tickets[i].id = ticket.id THEN ticket ELSE tickets[i]]

\* A plausible slip: the demo tickets are one list, and the update is made
\* in it
store_after_update_in_place(ticket_id, status, priority, tags_add, http_ok) ==
    IF update_ticket(ticket_id, status, priority, tags_add, http_ok).ok
    THEN Replaced(store, update_ticket(ticket_id, status, priority, tags_add, http_ok).v)
    ELSE store

\* What later reads give after update_ticket: in demo mode the ticket that
\* was changed is an object of a list get_ticket built for this call alone
\* (lines 366, 268, 43), so the reads are as before; else the ticket of the
\* Zendesk account is changed when the request succeeds
store_after_update(ticket_id, status, priority, tags_add, http_ok) ==
    IF demo_mode THEN store
    ELSE IF update_ticket(ticket_id, status, priority, tags_add, http_ok).ok
         THEN Replaced(store, update_ticket(ticket_id, status, priority, tags_add, http_ok).v)
         ELSE store

\* add_comment: in demo mode a log line and a fixed answer; else a PUT that
\* also sets the status of the ticket, pending for a public comment and
\* open for an internal note
add_comment(comment, http_ok) ==
    IF demo_mode \/ (http_ok /\ HasTicket(store, comment.ticket_id))
    THEN Ok([ticket |-> [id |-> comment.ticket_id,
                         status |-> IF comment.public THEN "pending" ELSE "open"],
             comment |-> [id |-> 99999, body |-> comment.body,
                          public |-> comment.public]])
    ELSE Raise("HTTPStatusError")

store_after_comment(comment, http_ok) ==
    IF ~demo_mode /\ add_comment(comment, http_ok).ok
    THEN Replaced(store,
                  [TicketOf(store, comment.ticket_id) EXCEPT
                      !.status = IF comment.public THEN "pending" ELSE "open"])
    ELSE store

ZendeskComment(ticket_id, body, public) ==
    [ticket_id |-> ticket_id, body |-> body, public |-> public]

(***************************************************************************)
(* zendesk_client as shipped (DEMO_MODE = True): reads and writes in any   *)
(* order                                                                   *)
(***************************************************************************)
MaxWrites == 2

\* Two demo tickets and an id that is no demo ticket
TicketIds == {40112, 40045, 99999}

StatusArgs == {JNull, JStr("solved"), JStr("closed")}
PriorityArgs == {JNull, JStr("low")}
TagsArgs == {<<>>, <<"ai-reviewed">>}
RequesterIds == {9001, 9002, 9099}

InitZendesk ==
    /\ demo_mode = TRUE
    /\ store = DemoTickets
    /\ calls = <<>>
    /\ result = <<>>
    /\ p_in = <<>> /\ p_wrap = NoWrap /\ p_out = NotParsed
    /\ kb_in = NoCategories /\ kb_out = <<>>
    /\ client = "none" /\ pc = "idle" /\ op = "none" /\ args = <<>>
    /\ raw = <<>> /\ outcome = <<>> /\ trace = <<>> /\ prompt = <<>>

GetTicket(ticket_id) ==
    /\ result' = [call |-> "get_ticket", ticket_id |-> ticket_id,
                  out |-> get_ticket(ticket_id, TRUE)]
    /\ UNCHANGED <<demo_mode, store, calls, engineVars, parseVars, kbVars>>

ListTickets(status) ==
    /\ result' = [call |-> "list_tickets", status |-> status,
                  out |-> Ok(list_tickets(status))]
    /\ UNCHANGED <<demo_mode, store, calls, engineVars, parseVars, kbVars>>

GetTicketsByRequester(requester_id) ==
    /\ result' = [call |-> "get_tickets_by_requester", requester_id |-> requester_id,
                  out |-> Ok(get_tickets_by_requester(requester_id))]
    /\ UNCHANGED <<demo_mode, store, calls, engineVars, parseVars, kbVars>>

UpdateTicket(ticket_id, status, priority, tags_add) ==
    /\ Len(calls) < MaxWrites
    /\ result' = [call |-> "update_ticket", ticket_id |-> ticket_id,
                  status |-> status, priority |-> priority, tags_add |-> tags_add,
                  out |-> update_ticket(ticket_id, status, priority, tags_add, TRUE)]
    /\ store' = store_after_update(ticket_id, status, priority, tags_add, TRUE)
    /\ calls' = Append(calls,
                       [call |-> "update_ticket", ticket_id |-> ticket_id,
                        status |-> status,
                        ok |-> update_ticket(ticket_id, status, priority, tags_add,
                                             TRUE).ok])
    /\ UNCHANGED <<demo_mode, engineVars, parseVars, kbVars>>

AddComment(ticket_id, public) ==
    /\ Len(calls) < MaxWrites
    /\ result' = [call |-> "add_comment", ticket_id |-> ticket_id,
                  out |-> add_comment(ZendeskComment(ticket_id, "We are on it.", public),
                                      TRUE)]
    /\ store' = store_after_comment(
                    ZendeskComment(ticket_id, "We are on it.", public), TRUE)
    /\ calls' = Append(calls,
                       [call |-> "add_comment", ticket_id |-> ticket_id,
                        status |-> JNull, ok |-> TRUE])
    /\ UNCHANGED <<demo_mode, engineVars, parseVars, kbVars>>

NextZendesk ==
    \/ \E ticket_id \in TicketIds : GetTicket(ticket_id)
    \/ \E status \in TicketStatus : ListTickets(status)
    \/ \E requester_id \in RequesterIds : GetTicketsByRequester(requester_id)
    \/ \E ticket_id \in TicketIds, status \in StatusArgs, priority \in PriorityArgs,
          tags_add \in TagsArgs :
           UpdateTicket(ticket_id, status, priority, tags_add)
    \/ \E ticket_id \in TicketIds, public \in BOOLEAN : AddComment(ticket_id, public)

SpecZendesk == InitZendesk /\ [][NextZendesk]_vars

\* The tickets of a list are demo tickets as _demo_tickets() gives them
AllOriginal(tickets) ==
    \A i \in 1..Len(tickets) :
        /\ HasTicket(DemoTickets, tickets[i].id)
        /\ tickets[i] = TicketOf(DemoTickets, tickets[i].id)

\* C30: in demo mode no sequence of update_ticket and add_comment calls
\* changes what the reads give: get_ticket, list_tickets and
\* get_tickets_by_requester return each demo ticket with its original
\* status, priority and tags, while the ticket update_ticket returns shows
\* the change.
C30_DemoStoreUnchanged ==
    (demo_mode /\ result # <<>>) =>
        /\ store = DemoTickets
        /\ (result.call = "get_ticket" /\ result.out.ok) =>
               AllOriginal(<<result.out.v>>)
        /\ result.call = "list_tickets" =>
               /\ AllOriginal(result.out.v)
               /\ \A i \in 1..Len(DemoTickets) :
                      DemoTickets[i].status = result.status =>
                          HasTicket(result.out.v, DemoTickets[i].id)
        /\ result.call = "get_tickets_by_requester" =>
               /\ AllOriginal(result.out.v)
               /\ \A i \in 1..Len(DemoTickets) :
                      DemoTickets[i].requester_id = result.requester_id =>
                          HasTicket(result.out.v, DemoTickets[i].id)
        /\ (result.call = "update_ticket" /\ result.out.ok) =>
               /\ result.status # JNull => result.out.v.status = result.status.s
               /\ result.priority # JNull => result.out.v.priority = result.priority

\* C30 witness: ticket 40112 was updated to solved, and a later get_ticket
\* gives it open, urgent, with its three tags
C30_Witness ==
    /\ demo_mode
    /\ \E i \in 1..Len(calls) :
           calls[i] = [call |-> "update_ticket", ticket_id |-> 40112,
                       status |-> JStr("solved"), ok |-> TRUE]
    /\ result # <<>>
    /\ result.call = "get_ticket"
    /\ result.ticket_id = 40112
    /\ result.out.ok
    /\ result.out.v.status = "open"
    /\ result.out.v.priority = JStr("urgent")
    /\ result.out.v.tags = <<"p21", "reporting", "month-end">>

\* C30, the ticket update_ticket returned shows the change
C30_WitnessReturned ==
    /\ demo_mode
    /\ result # <<>>
    /\ result.call = "update_ticket"
    /\ result.ticket_id = 40045
    /\ result.status = JStr("closed")
    /\ result.out.ok
    /\ result.out.v.status = "closed"
    /\ TicketOf(store, 40045).status = "solved"

(***************************************************************************)
(* zendesk_client.py: users and search; outlook_client.py                  *)
(***************************************************************************)
\* _DEMO_USERS: the end users, the name as its words
DemoUsers ==
    [id \in {9001, 9002, 9003, 9004, 9005, 9006} |->
        CASE id = 9001 -> [name |-> <<"Maria", "Gonzalez">>,
                           email |-> "maria.gonzalez@acmedist.com"]
          [] id = 9002 -> [name |-> <<"James", "Whitfield">>,
                           email |-> "j.whitfield@northstarlogistics.com"]
          [] id = 9003 -> [name |-> <<"Priya", "Sharma">>,
                           email |-> "priya@tektonparts.com"]
          [] id = 9004 -> [name |-> <<"Robert", "Chen">>,
                           email |-> "rchen@precisionmfg.com"]
          [] id = 9005 -> [name |-> <<"Angela", "Torres">>,
                           email |-> "angela.torres@summitsupply.com"]
          [] id = 9006 -> [name |-> <<"Kevin", "Draper">>,
                           email |-> "kdraper@greatlakesind.com"]]

\* get_user: the demo user or "Unknown User"; else GET /users/{id}, which
\* raises when the request fails
get_user(user_id, http_ok) ==
    IF demo_mode \/ http_ok
    THEN Ok(IF user_id \in DOMAIN DemoUsers THEN DemoUsers[user_id]
            ELSE [name |-> <<"Unknown", "User">>, email |-> "unknown@example.com"])
    ELSE Raise("HTTPStatusError")

\* search_tickets for the query requester:"<email>" status:open. In demo
\* mode the lowered query is looked for inside each subject, description
\* and tag, and no demo ticket holds it; else the search answers with the
\* open tickets of that requester, or the request fails
search_tickets(sender_email, http_ok) ==
    IF demo_mode THEN Ok(<<>>)
    ELSE IF http_ok
         THEN Ok(Filter(store,
                        [id \in {store[i].id : i \in 1..Len(store)} |->
                            /\ TicketOf(store, id).status = "open"
                            /\ TicketOf(store, id).requester_id \in DOMAIN DemoUsers
                            /\ DemoUsers[TicketOf(store, id).requester_id].email
                                   = sender_email]))
         ELSE Raise("HTTPStatusError")

\* _demo_emails(): the first and the last of the seven
DemoEmails ==
    <<Email("MSG-DEMO-001", "RE: P21 Inventory Valuation report timeout",
            JStr("Maria Gonzalez"), "maria.gonzalez@acmedist.com",
            "Hi team, following up on ticket #40112."),
      Email("MSG-DEMO-007", "RE: Warehouse label printer issue - resolved",
            JStr("Kevin Draper"), "kdraper@greatlakesind.com",
            "Hey team, the label printer issue is resolved.")>>

HasEmail(message_id) == \E i \in 1..Len(DemoEmails) : DemoEmails[i].message_id = message_id

EmailOf(message_id) ==
    DemoEmails[CHOOSE i \in 1..Len(DemoEmails) : DemoEmails[i].message_id = message_id]

\* get_email: in demo mode a search of _demo_emails(), ValueError when the
\* id is not there; else GET /messages/{id}, which raises when the request
\* fails or the message does not exist
get_email(message_id, http_ok) ==
    IF demo_mode
    THEN IF HasEmail(message_id) THEN Ok(EmailOf(message_id)) ELSE Raise("ValueError")
    ELSE IF http_ok /\ HasEmail(message_id) THEN Ok(EmailOf(message_id))
         ELSE Raise("HTTPStatusError")

\* send_email: in demo mode a log line and True; else a POST that raises
\* when the request fails
send_email(outbound, http_ok) ==
    IF demo_mode \/ http_ok THEN Ok(TRUE) ELSE Raise("HTTPStatusError")

\* mark_email_read: in demo mode a log line and True; else a PATCH that
\* raises when the request fails
mark_email_read(message_id, http_ok) ==
    IF demo_mode \/ http_ok THEN Ok(TRUE) ELSE Raise("HTTPStatusError")

\* body_html is draft.body with every "\n" replaced by "<br>"
OutboundEmail(to, subject, body, reply_to_message_id) ==
    [to |-> to, subject |-> subject,
     body_html |-> [text |-> body, replaced |-> <<"\n", "<br>">>],
     reply_to_message_id |-> reply_to_message_id]

(***************************************************************************)
(* server.py: respond_to_ticket and process_email                          *)
(***************************************************************************)
\* What a handler answered: the HTTP status and the body (for an error the
\* detail or the exception)
Answer(status, body, made, tickets) ==
    [status |-> status, body |-> body, calls |-> made, store |-> tickets]

\* Lines 293-299: the first word of the requester's name, None when there
\* is no requester, no name, or get_user raised
requester_name_of(ticket, http_ok) ==
    IF ticket.requester_id = 0 THEN JNull
    ELSE IF ~get_user(ticket.requester_id, http_ok).ok THEN JNull
    ELSE IF get_user(ticket.requester_id, http_ok).v.name = <<>> THEN JNull
    ELSE JStr(Head(get_user(ticket.requester_id, http_ok).v.name))

CommentCall(comment, ok) ==
    [call |-> "add_comment", ticket_id |-> comment.ticket_id, body |-> comment.body,
     public |-> comment.public, ok |-> ok]

StatusCall(ticket_id, status, ok) ==
    [call |-> "update_ticket", ticket_id |-> ticket_id, status |-> status, ok |-> ok]

\* A plausible slip: the status is set first and the comment posted after
auto_send_status_first(ticket_id, response, failing) ==
    LET comment == ZendeskComment(ticket_id, response.body, TRUE)
        status == JStr(response.suggested_status)
        updated == update_ticket(ticket_id, status, JNull, <<>>,
                                 failing # "update_ticket")
        posted == add_comment(comment, failing # "add_comment")
    IN IF ~updated.ok
       THEN Answer(502, "Zendesk post failed",
                   <<StatusCall(ticket_id, status.s, FALSE)>>, store)
       ELSE IF ~posted.ok
       THEN Answer(502, "Zendesk post failed",
                   <<StatusCall(ticket_id, status.s, TRUE), CommentCall(comment, FALSE)>>,
                   store_after_update(ticket_id, status, JNull, <<>>, TRUE))
       ELSE Answer(200, response,
                   <<StatusCall(ticket_id, status.s, TRUE), CommentCall(comment, TRUE)>>,
                   store_after_comment(comment, TRUE))

\* Lines 304-319: the comment, then the status; the first call that raises
\* ends the request with 502
auto_send(ticket_id, response, failing) ==
    LET comment == ZendeskComment(ticket_id, response.body, TRUE)
        status == JStr(response.suggested_status)
        posted == add_comment(comment, failing # "add_comment")
        updated == update_ticket(ticket_id, status, JNull, <<>>,
                                 failing # "update_ticket")
    IN IF ~posted.ok
       THEN Answer(502, "Zendesk post failed", <<CommentCall(comment, FALSE)>>, store)
       ELSE IF ~updated.ok
       THEN Answer(502, "Zendesk post failed",
                   <<CommentCall(comment, TRUE), StatusCall(ticket_id, status.s, FALSE)>>,
                   store_after_comment(comment, TRUE))
       ELSE Answer(200, response,
                   <<CommentCall(comment, TRUE), StatusCall(ticket_id, status.s, TRUE)>>,
                   store_after_update(ticket_id, status, JNull, <<>>, TRUE))

\* Lines 281-321. The engine's exceptions are not caught: the framework
\* answers 500
respond_to_ticket(ticket_id, body, classify_reply, respond_reply, failing) ==
    LET got == get_ticket(ticket_id, failing # "get_ticket")
        ticket == got.v
        requester_name == requester_name_of(ticket, failing # "get_user")
        classified == classify_ticket(ticket, classify_reply)
        responded == generate_ticket_response(ticket, classified.value,
                                              requester_name, respond_reply)
    IN IF ~got.ok THEN Answer(502, "Zendesk error fetching ticket", <<>>, store)
       ELSE IF classified.kind = "raise" THEN Answer(500, classified.exc, <<>>, store)
       ELSE IF responded.kind = "raise" THEN Answer(500, responded.exc, <<>>, store)
       ELSE IF body.auto_send THEN auto_send(ticket_id, responded.value, failing)
       ELSE Answer(200, responded.value, <<>>, store)

MailCall(call, message_id, ok) == [call |-> call, message_id |-> message_id, ok |-> ok]

\* Lines 413-426: the reply is sent and then the email marked read; an
\* exception of either ends the block and is reported in the result
auto_reply(message_id, email, draft, failing) ==
    LET outbound == OutboundEmail(<<email.sender_email>>, draft.subject, draft.body,
                                  message_id)
        sent == send_email(outbound, failing # "send_email")
        marked == mark_email_read(message_id, failing # "mark_email_read")
    IN IF ~sent.ok
       THEN [auto_replied |-> FALSE, auto_reply_error |-> JStr(sent.exc),
             calls |-> <<MailCall("send_email", message_id, FALSE)>>]
       ELSE IF ~marked.ok
       THEN [auto_replied |-> FALSE, auto_reply_error |-> JStr(marked.exc),
             calls |-> <<MailCall("send_email", message_id, TRUE),
                         MailCall("mark_email_read", message_id, FALSE)>>]
       ELSE [auto_replied |-> TRUE, auto_reply_error |-> Absent,
             calls |-> <<MailCall("send_email", message_id, TRUE),
                         MailCall("mark_email_read", message_id, TRUE)>>]

\* Lines 370-428
process_email(message_id, body, classify_reply, respond_reply, failing) ==
    LET got == get_email(message_id, failing # "get_email")
        email == got.v
        mock_ticket == Ticket(0, email.subject, JStr(email.body_text), "new", JNull, <<>>)
        classified == classify_ticket(mock_ticket, classify_reply)
        drafted == generate_email_response(email, classified.value, respond_reply)
        found == search_tickets(email.sender_email, failing # "search_tickets")
        existing_ticket == IF found.ok /\ found.v # <<>> THEN found.v[1] ELSE JNull
        replied == IF body.auto_reply
                   THEN auto_reply(message_id, email, drafted.value, failing)
                   ELSE [auto_replied |-> FALSE, auto_reply_error |-> Absent,
                         calls |-> <<>>]
    IN IF ~got.ok THEN Answer(502, "Graph API error", <<>>, store)
       ELSE IF classified.kind = "raise" THEN Answer(500, classified.exc, <<>>, store)
       ELSE IF drafted.kind = "raise" THEN Answer(500, drafted.exc, <<>>, store)
       ELSE Answer(200,
                   [email |-> email,
                    classification |-> classified.value,
                    draft_response |-> drafted.value,
                    existing_zendesk_ticket |-> existing_ticket,
                    auto_replied |-> replied.auto_replied,
                    auto_reply_error |-> replied.auto_reply_error],
                   replied.calls, store)

(***************************************************************************)
(* The server: requests one after another, against the demo data or an     *)
(* account whose requests may fail                                         *)
(***************************************************************************)
\* A demo ticket and a demo email, and ids that are neither
ServerTicketIds == {40112, 99999}
MessageIds == {"MSG-DEMO-001", "MSG-UNKNOWN"}

\* The one client request that fails while a handler runs, if any (it
\* fails only when DEMO_MODE is off)
TicketFailures == {"none", "get_ticket", "get_user", "add_comment", "update_ticket"}
EmailFailures ==
    {"none", "get_email", "search_tickets", "send_email", "mark_email_read"}

\* What the model answers a handler's two calls with: a well-formed
\* object, a text that is no JSON, a provider error
ServerClassifyReplies ==
    {Reply(Render(CHOOSE b \in ClassifyBases : b.priority = JStr("urgent"),
                  ClassifyFields)),
     Reply(<<Word("Sorry, I cannot help with that.")>>),
     ProviderFailure("RateLimitError")}

ServerRespondReplies ==
    {Reply(Render(b, RespondFields)) : b \in RespondBases}
    \cup {Reply(<<Word("Sorry, I cannot help with that.")>>),
          ProviderFailure("APITimeoutError")}

\* DEMO_MODE is True as shipped; with the toggle of both clients off the
\* handlers run against a Zendesk account (holding the same tickets) and a
\* mailbox, whose requests can fail
InitServer ==
    /\ demo_mode \in BOOLEAN
    /\ store = DemoTickets
    /\ calls = <<>>
    /\ result = <<>>
    /\ client \in {"configured", "none"}
    /\ pc = "idle" /\ op = "none" /\ args = <<>>
    /\ raw = <<>> /\ outcome = <<>> /\ trace = <<>> /\ prompt = <<>>
    /\ p_in = <<>> /\ p_wrap = NoWrap /\ p_out = NotParsed
    /\ kb_in = NoCategories /\ kb_out = <<>>

\* POST /tickets/{ticket_id}/respond
RespondToTicket(ticket_id, body, classify_reply, respond_reply, failing) ==
    \E answer \in {respond_to_ticket(ticket_id, body, classify_reply, respond_reply,
                                    failing)} :
       /\ result' = [handler |-> "respond_to_ticket", ticket_id |-> ticket_id,
                     request |-> body, status |-> answer.status,
                     body |-> answer.body]
       /\ calls' = answer.calls
       /\ store' = answer.store
       /\ UNCHANGED <<demo_mode, engineVars, parseVars, kbVars>>

\* POST /emails/{message_id}/process
ProcessEmail(message_id, body, classify_reply, respond_reply, failing) ==
    \E answer \in {process_email(message_id, body, classify_reply, respond_reply,
                                failing)} :
       /\ result' = [handler |-> "process_email", message_id |-> message_id,
                     request |-> body, status |-> answer.status,
                     body |-> answer.body]
       /\ calls' = answer.calls
       /\ store' = answer.store
       /\ UNCHANGED <<demo_mode, engineVars, parseVars, kbVars>>

NextServer ==
    \/ \E ticket_id \in ServerTicketIds, send \in BOOLEAN,
          classify_reply \in ServerClassifyReplies,
          respond_reply \in ServerRespondReplies, failing \in TicketFailures :
           RespondToTicket(ticket_id, [auto_send |-> send], classify_reply,
                           respond_reply, failing)
    \/ \E message_id \in MessageIds, send \in BOOLEAN,
          classify_reply \in ServerClassifyReplies,
          respond_reply \in ServerRespondReplies, failing \in EmailFailures :
           ProcessEmail(message_id, [auto_reply |-> send], classify_reply,
                        respond_reply, failing)

SpecServer == InitServer /\ [][NextServer]_vars

\* The calls of the last request that went through, by name
Made(name) == {i \in 1..Len(calls) : calls[i].call = name /\ calls[i].ok}

\* C26: every process_email call that returns a result has marked the
\* inbound email as read, whether or not auto_reply was requested.
C26_ReturnedMeansMarkedRead ==
    (/\ result # <<>>
     /\ result.handler = "process_email"
     /\ result.status = 200) =>
        \E i \in Made("mark_email_read") : calls[i].message_id = result.message_id

\* C27: in respond_to_ticket no Zendesk write happens when auto_send is
\* false; when auto_send is true the generated body is posted as a public
\* comment before the ticket status is set to the response's
\* suggested_status, and if posting the comment fails the status update is
\* never attempted and the caller gets a 502 error instead of the response.
C27_CommentThenStatus ==
    (result # <<>> /\ result.handler = "respond_to_ticket") =>
        /\ ~result.request.auto_send => calls = <<>>
        /\ calls # <<>> =>
               /\ calls[1].call = "add_comment"
               /\ calls[1].ticket_id = result.ticket_id
               /\ calls[1].public
               /\ Len(calls) <= 2
               /\ Len(calls) = 2 =>
                      /\ calls[1].ok
                      /\ calls[2].call = "update_ticket"
                      /\ calls[2].ticket_id = result.ticket_id
               /\ ~calls[1].ok =>
                      /\ Len(calls) = 1
                      /\ result.status = 502
                      /\ result.body = "Zendesk post failed"
        /\ (result.request.auto_send /\ result.status = 200) =>
               calls = <<CommentCall(ZendeskComment(result.ticket_id,
                                                    result.body.body, TRUE), TRUE),
                         StatusCall(result.ticket_id, result.body.suggested_status,
                                    TRUE)>>

\* C27 witness: with auto_send the comment could not be posted; the one
\* call of the request is the failed add_comment and the answer is 502
C27_Witness ==
    /\ result # <<>>
    /\ result.handler = "respond_to_ticket"
    /\ result.request.auto_send
    /\ result.status = 502
    /\ Len(calls) = 1
    /\ calls[1].call = "add_comment"
    /\ ~calls[1].ok

\* C27, the request that went through: the model's body as a public
\* comment, then status solved
C27_WitnessSent ==
    /\ result # <<>>
    /\ result.handler = "respond_to_ticket"
    /\ result.request.auto_send
    /\ result.status = 200
    /\ Len(calls) = 2
    /\ calls[1].body = <<"Hi Dana, we are on it. The Conveyance365 Team">>
    /\ calls[2].status = "solved"

\* C27, a response was generated and nothing written
C27_WitnessDraftOnly ==
    /\ result # <<>>
    /\ result.handler = "respond_to_ticket"
    /\ ~result.request.auto_send
    /\ result.status = 200
    /\ calls = <<>>

====
